---- MODULE Spec2Model ----
(***************************************************************************)
(* State-machine model of three parts of the dslab repository:             *)
(*   - the FaaS invoker (crates/dslab-faas/src/invoker.rs): try_invoke,    *)
(*     NaiveInvoker and FIFOInvoker, over a container manager;             *)
(*   - the model checker's pending-events store                            *)
(*     (crates/dslab-mp/src/mc/pending_events.rs) over a dependency        *)
(*     resolver;                                                           *)
(*   - the disk storage model (crates/dslab-storage/src/disk.rs) over the  *)
(*     simulation kernel and a fair throughput-sharing model.              *)
(* Times and delays are f64 in the source; the model uses integers.        *)
(* Option<T> values are modelled as sequences: <<>> is None, <<x>> is      *)
(* Some(x).                                                                *)
(***************************************************************************)
EXTENDS Integers, Sequences, FiniteSets, TLC

VARIABLES
    \* ---- FaaS host: invoker and container manager ----
    policy,      \* which Invoker implementation the host uses: "Naive" | "FIFO"
    queue,       \* NaiveInvoker.queue / FIFOInvoker.queue: Seq of InvokerQueueItem
    cm,          \* ContainerManager: containers, iteration index, free resources
    time,        \* simulation clock
    inv_counter, \* number of invocations created so far (next invocation id)
    admitted,    \* history: invocations admitted so far, in admission order
    last,        \* observation of the last invoker call (arguments and results)
    \* ---- model checker: pending events ----
    pe,          \* the PendingEvents struct
    pe_aborted,  \* TRUE once a call on pe has panicked
    fired,       \* history: per process, the TimerFired popped last, if any
    late,        \* history: ids of the TimerFired events that were blocked when pushed
    assigned,    \* history: the ids given to events so far, by push or push_with_fixed_id
    pe_inputs,   \* the events the system under test can produce
    pe_last,     \* observation of the last call on pe
    \* ---- storage: disk ----
    disk,        \* the Disk struct (with its two throughput models)
    ctx,         \* the simulation kernel as the disk sees it: clock, event queue, emitted events
    dk_aborted,  \* TRUE once a handler of the disk has panicked
    owed,        \* history: per size, the writes admitted and not yet freed
    base_used,   \* history: used space when the current run of write / mark_free pairs began
    dk_last      \* observation of the last call on the disk

invvars == <<policy, queue, cm, time, inv_counter, admitted, last>>

pevars == <<pe, pe_aborted, fired, late, assigned, pe_inputs, pe_last>>

diskvars == <<disk, ctx, dk_aborted, owed, base_used, dk_last>>

vars == <<invvars, pevars, diskvars>>

\* ---- bounds of the model ----
MaxTime == 2
MaxInvocations == 3
MaxEvents == 3
MaxRequests == 3

\* ------------------------------------------------------------------------
\* Small helpers
\* ------------------------------------------------------------------------
Range(s) == {s[i] : i \in 1..Len(s)}

InsertAt(s, k, x) == SubSeq(s, 1, k - 1) \o <<x>> \o SubSeq(s, k, Len(s))

Min(a, b) == IF a <= b THEN a ELSE b

\* ------------------------------------------------------------------------
\* Applications and host (configuration of the simulated host)
\* ------------------------------------------------------------------------
\* Application: resource requirements and deployment time; app 0 is large,
\* app 1 is small.
Apps ==
    [a \in {0, 1} |->
        IF a = 0 THEN [id |-> 0, cores |-> 2, memory |-> 2, deployment_time |-> 2]
                 ELSE [id |-> 1, cores |-> 1, memory |-> 1, deployment_time |-> 1]]

AppIds == DOMAIN Apps

\* FunctionRegistry::get_app
get_app(app_id) == Apps[app_id]

\* Host capacity.
Host == [cores |-> 2, memory |-> 3]

\* ------------------------------------------------------------------------
\* InvokerDecision (invoker.rs:11-17)
\* ------------------------------------------------------------------------
Warm(id) == [kind |-> "Warm", id |-> id, delay |-> 0]
Cold(id, delay) == [kind |-> "Cold", id |-> id, delay |-> delay]
Queued == [kind |-> "Queued", id |-> 0, delay |-> 0]
Rejected == [kind |-> "Rejected", id |-> 0, delay |-> 0]

\* DequeuedInvocation::new (invoker.rs:26-34); delay is an Option
DequeuedInvocation(id, container_id, delay) ==
    [id |-> id, container_id |-> container_id, delay |-> delay]

\* InvokerQueueItem::new (invoker.rs:99-108)
InvokerQueueItem(invocation_id, func_id, app_id, t) ==
    [invocation_id |-> invocation_id, func_id |-> func_id, app_id |-> app_id, time |-> t]

\* ------------------------------------------------------------------------
\* Container manager.  Container ids start at 0; container id is stored at
\* index id + 1 of m.containers.  Terminated containers stay in the table.
\* ------------------------------------------------------------------------
get_container(m, id) == m.containers[id + 1]

set_container(m, id, c) == [m EXCEPT !.containers[id + 1] = c]

\* Containers of the app that are Idle, or Deploying when include_deploying,
\* in the iteration order of the manager's index (m.index).  The index is an
\* unordered collection in the model: its iteration order is arbitrary.
get_possible_containers(m, app, include_deploying) ==
    LET ok(id) ==
            /\ get_container(m, id).app_id = app.id
            /\ \/ get_container(m, id).status = "Idle"
               \/ include_deploying /\ get_container(m, id).status = "Deploying"
    IN SelectSeq(m.index, ok)

\* mutant of try_deploy: the container is deployed whatever the host has free
try_deploy_NoCheck(m, app, t) ==
    LET id == Len(m.containers)
        c == [id |-> id, status |-> "Deploying", app_id |-> app.id,
              deployment_time |-> app.deployment_time, last_change |-> t,
              invocations |-> {}, reserved |-> {}]
    IN [res |-> <<<<id, app.deployment_time>>>>,
        cm |-> [m EXCEPT !.containers = Append(m.containers, c),
                         !.index = InsertAt(m.index, Min(m.slot, Len(m.index)) + 1, id),
                         !.cores = m.cores - app.cores,
                         !.memory = m.memory - app.memory]]

\* try_deploy: a new Deploying container when the host has enough free cores
\* and memory; returns Some((id, app.deployment_time)) or None, and the manager.
\* m.slot is the place the new id takes in the index's iteration order.
try_deploy(m, app, t) ==
    IF m.cores >= app.cores /\ m.memory >= app.memory
    THEN LET id == Len(m.containers)
             c == [id |-> id, status |-> "Deploying", app_id |-> app.id,
                   deployment_time |-> app.deployment_time, last_change |-> t,
                   invocations |-> {}, reserved |-> {}]
         IN [res |-> <<<<id, app.deployment_time>>>>,
             cm |-> [m EXCEPT !.containers = Append(m.containers, c),
                              !.index = InsertAt(m.index, Min(m.slot, Len(m.index)) + 1, id),
                              !.cores = m.cores - app.cores,
                              !.memory = m.memory - app.memory]]
    ELSE [res |-> <<>>, cm |-> m]

\* reserve_container: attach the invocation to a container being deployed.
reserve_container(m, id, invocation_id) ==
    set_container(m, id,
        [get_container(m, id) EXCEPT !.reserved = @ \cup {invocation_id}])

\* Container::start_invocation
start_invocation(c, invocation_id) ==
    [c EXCEPT !.invocations = @ \cup {invocation_id}]

\* ------------------------------------------------------------------------
\* try_invoke (invoker.rs:36-61)
\* ------------------------------------------------------------------------
\* delay of one candidate (invoker.rs:40-44)
candidate_delay(c, t) ==
    IF c.status = "Deploying" THEN c.deployment_time + c.last_change - t ELSE 0

\* mutant of BetterCandidate: a later candidate with an equal delay replaces the choice
BetterCandidate_LastTie(nearest, wait, delay) == nearest = <<>> \/ wait >= delay

\* the test that replaces the current choice (invoker.rs:45)
BetterCandidate(nearest, wait, delay) == nearest = <<>> \/ wait > delay

\* the loop of invoker.rs:37-49 over the candidates cands[i..]
RECURSIVE nearest_scan(_, _, _, _, _, _)
nearest_scan(cands, i, nearest, wait, m, t) ==
    IF i > Len(cands) THEN [nearest |-> nearest, wait |-> wait]
    ELSE LET c == get_container(m, cands[i])
             delay == candidate_delay(c, t)
         IN IF BetterCandidate(nearest, wait, delay)
            THEN nearest_scan(cands, i + 1, <<c.id>>, delay, m, t)
            ELSE nearest_scan(cands, i + 1, nearest, wait, m, t)

\* mutant of candidate_decision: Warm is decided by the wait, not by the status
candidate_decision_ByWait(m, id, wait) ==
    IF wait = 0 THEN Warm(id) ELSE Cold(id, wait)

\* the decision once a candidate was found (invoker.rs:50-56)
candidate_decision(m, id, wait) ==
    IF get_container(m, id).status = "Idle" THEN Warm(id) ELSE Cold(id, wait)

\* mutant of try_invoke: a new container is deployed whenever no candidate is Idle
try_invoke_DeployFirst(app, m, t) ==
    LET scan == nearest_scan(get_possible_containers(m, app, FALSE), 1, <<>>, 0, m, t)
    IN IF scan.nearest # <<>>
       THEN [decision |-> candidate_decision(m, scan.nearest[1], scan.wait),
             cm |-> m, tried_deploy |-> FALSE]
       ELSE LET d == try_deploy(m, app, t)
            IN IF d.res # <<>>
               THEN [decision |-> Cold(d.res[1][1], d.res[1][2]), cm |-> d.cm,
                     tried_deploy |-> TRUE]
               ELSE [decision |-> Rejected, cm |-> m, tried_deploy |-> TRUE]

try_invoke(app, m, t) ==
    LET scan == nearest_scan(get_possible_containers(m, app, TRUE), 1, <<>>, 0, m, t)
    IN IF scan.nearest # <<>>
       THEN [decision |-> candidate_decision(m, scan.nearest[1], scan.wait),
             cm |-> m, tried_deploy |-> FALSE]
       ELSE LET d == try_deploy(m, app, t)
            IN IF d.res # <<>>
               THEN [decision |-> Cold(d.res[1][1], d.res[1][2]), cm |-> d.cm,
                     tried_deploy |-> TRUE]
               ELSE [decision |-> Rejected, cm |-> m, tried_deploy |-> TRUE]

\* ------------------------------------------------------------------------
\* Admission of a queued item (the Warm and Cold arms of both dequeue loops)
\* ------------------------------------------------------------------------
\* Warm arm (invoker.rs:142-153, 230-242): container state after admission
admit_warm(m, id, item, t) ==
    LET container == get_container(m, id)
    IN set_container(m, id,
         start_invocation([container EXCEPT !.last_change = t, !.status = "Running"],
                          item.invocation_id))

\* mutant of admit_cold: the reserved container is marked Running at once
admit_cold_Running(m, id, item) ==
    LET c == get_container(reserve_container(m, id, item.invocation_id), id)
    IN set_container(m, id, [c EXCEPT !.status = "Running"])

\* Cold arm (invoker.rs:155-160, 244-250)
admit_cold(m, id, item) == reserve_container(m, id, item.invocation_id)

\* ------------------------------------------------------------------------
\* NaiveInvoker (invoker.rs:110-202)
\* ------------------------------------------------------------------------
\* the drain loop of NaiveInvoker::dequeue (invoker.rs:136-168) over items[i..];
\* visited records, for each call of try_invoke, the item and the decision
RECURSIVE naive_drain(_, _, _, _, _, _, _)
naive_drain(items, i, m, new_queue, dequeued, visited, t) ==
    IF i > Len(items)
    THEN [queue |-> new_queue, dequeued |-> dequeued, cm |-> m, visited |-> visited,
          panicked |-> FALSE]
    ELSE LET item == items[i]
             r == try_invoke(get_app(item.app_id), m, t)
             d == r.decision
             v == Append(visited, [id |-> item.invocation_id, kind |-> d.kind])
         IN CASE d.kind = "Warm" ->
                   naive_drain(items, i + 1, admit_warm(r.cm, d.id, item, t), new_queue,
                       Append(dequeued, DequeuedInvocation(item.invocation_id, d.id, <<>>)),
                       v, t)
              [] d.kind = "Cold" ->
                   naive_drain(items, i + 1, admit_cold(r.cm, d.id, item), new_queue,
                       Append(dequeued,
                              DequeuedInvocation(item.invocation_id, d.id, <<d.delay>>)),
                       v, t)
              [] d.kind = "Rejected" ->
                   naive_drain(items, i + 1, r.cm, Append(new_queue, item), dequeued, v, t)
              [] OTHER ->
                   [queue |-> new_queue, dequeued |-> dequeued, cm |-> r.cm,
                    visited |-> v, panicked |-> TRUE]

\* mutant of NaiveInvoker_dequeue: the retained items are not put back in order
NaiveInvoker_dequeue_Reversed(q, m, t) ==
    IF q = <<>>
    THEN [queue |-> q, dequeued |-> <<>>, cm |-> m, visited |-> <<>>, panicked |-> FALSE]
    ELSE LET r == naive_drain(q, 1, m, <<>>, <<>>, <<>>, t)
         IN [r EXCEPT !.queue = [k \in 1..Len(r.queue) |-> r.queue[Len(r.queue) + 1 - k]]]

\* mutant of NaiveInvoker_dequeue: the admitted items stay in the queue
NaiveInvoker_dequeue_KeepQueue(q, m, t) ==
    IF q = <<>>
    THEN [queue |-> q, dequeued |-> <<>>, cm |-> m, visited |-> <<>>, panicked |-> FALSE]
    ELSE [naive_drain(q, 1, m, <<>>, <<>>, <<>>, t) EXCEPT !.queue = q]

\* mutant of NaiveInvoker_dequeue: the admissions are returned last first
NaiveInvoker_dequeue_LastFirst(q, m, t) ==
    IF q = <<>>
    THEN [queue |-> q, dequeued |-> <<>>, cm |-> m, visited |-> <<>>, panicked |-> FALSE]
    ELSE LET r == naive_drain(q, 1, m, <<>>, <<>>, <<>>, t)
         IN [r EXCEPT !.dequeued =
                [k \in 1..Len(r.dequeued) |-> r.dequeued[Len(r.dequeued) + 1 - k]]]

\* NaiveInvoker::dequeue (invoker.rs:124-171)
NaiveInvoker_dequeue(q, m, t) ==
    IF q = <<>>
    THEN [queue |-> q, dequeued |-> <<>>, cm |-> m, visited |-> <<>>, panicked |-> FALSE]
    ELSE naive_drain(q, 1, m, <<>>, <<>>, <<>>, t)

\* mutant of NaiveInvoker_invoke: the decision of try_invoke is returned as it is
NaiveInvoker_invoke_NoQueue(q, invocation, m, t) ==
    LET r == try_invoke(get_app(invocation.app_id), m, t)
    IN [decision |-> r.decision, cm |-> r.cm, queue |-> q]

\* NaiveInvoker::invoke (invoker.rs:173-193)
NaiveInvoker_invoke(q, invocation, m, t) ==
    LET r == try_invoke(get_app(invocation.app_id), m, t)
    IN IF r.decision = Rejected
       THEN [decision |-> Queued, cm |-> r.cm,
             queue |-> Append(q, InvokerQueueItem(invocation.id, invocation.func_id,
                                                  invocation.app_id,
                                                  invocation.arrival_time))]
       ELSE [decision |-> r.decision, cm |-> r.cm, queue |-> q]

\* NaiveInvoker::queue_len (invoker.rs:195-197)
queue_len(q) == Len(q)

\* ------------------------------------------------------------------------
\* FIFOInvoker (invoker.rs:204-291)
\* ------------------------------------------------------------------------
\* the while loop of FIFOInvoker::dequeue (invoker.rs:225-258)
RECURSIVE fifo_loop(_, _, _, _, _)
fifo_loop(q, m, dequeued, visited, t) ==
    IF q = <<>>
    THEN [queue |-> q, dequeued |-> dequeued, cm |-> m, visited |-> visited,
          panicked |-> FALSE]
    ELSE LET item == Head(q)
             r == try_invoke(get_app(item.app_id), m, t)
             d == r.decision
             v == Append(visited, [id |-> item.invocation_id, kind |-> d.kind])
         IN CASE d.kind = "Warm" ->
                   fifo_loop(Tail(q), admit_warm(r.cm, d.id, item, t),
                       Append(dequeued, DequeuedInvocation(item.invocation_id, d.id, <<>>)),
                       v, t)
              [] d.kind = "Cold" ->
                   fifo_loop(Tail(q), admit_cold(r.cm, d.id, item),
                       Append(dequeued,
                              DequeuedInvocation(item.invocation_id, d.id, <<d.delay>>)),
                       v, t)
              [] d.kind = "Rejected" ->
                   [queue |-> q, dequeued |-> dequeued, cm |-> r.cm, visited |-> v,
                    panicked |-> FALSE]
              [] OTHER ->
                   [queue |-> q, dequeued |-> dequeued, cm |-> r.cm, visited |-> v,
                    panicked |-> TRUE]

\* mutant of FIFOInvoker_dequeue: a Rejected front item is skipped, not waited for
FIFOInvoker_dequeue_Skip(q, m, t) == naive_drain(q, 1, m, <<>>, <<>>, <<>>, t)

\* mutant of FIFOInvoker_dequeue: the admitted items are not popped
FIFOInvoker_dequeue_NoPop(q, m, t) ==
    [fifo_loop(q, m, <<>>, <<>>, t) EXCEPT !.queue = q]

\* FIFOInvoker::dequeue (invoker.rs:217-260)
FIFOInvoker_dequeue(q, m, t) == fifo_loop(q, m, <<>>, <<>>, t)

\* mutant of FIFOInvoker_invoke: push_front instead of push_back
FIFOInvoker_invoke_PushFront(q, invocation, m, t) ==
    LET r == try_invoke(get_app(invocation.app_id), m, t)
    IN IF r.decision = Rejected
       THEN [decision |-> Queued, cm |-> r.cm,
             queue |-> <<InvokerQueueItem(invocation.id, invocation.func_id,
                                          invocation.app_id,
                                          invocation.arrival_time)>> \o q]
       ELSE [decision |-> r.decision, cm |-> r.cm, queue |-> q]

\* FIFOInvoker::invoke (invoker.rs:262-282)
FIFOInvoker_invoke(q, invocation, m, t) ==
    LET r == try_invoke(get_app(invocation.app_id), m, t)
    IN IF r.decision = Rejected
       THEN [decision |-> Queued, cm |-> r.cm,
             queue |-> Append(q, InvokerQueueItem(invocation.id, invocation.func_id,
                                                  invocation.app_id,
                                                  invocation.arrival_time))]
       ELSE [decision |-> r.decision, cm |-> r.cm, queue |-> q]

\* ------------------------------------------------------------------------
\* The host around the invoker: what it does with the decision of invoke,
\* and the container lifecycle events.
\* ------------------------------------------------------------------------
\* the host starts the invocation in the chosen container (Warm) or reserves
\* the container being deployed for it (Cold); Queued changes nothing
host_apply(m, decision, invocation, t) ==
    CASE decision.kind = "Warm" ->
            set_container(m, decision.id,
                start_invocation([get_container(m, decision.id) EXCEPT
                                     !.last_change = t, !.status = "Running"],
                                 invocation.id))
      [] decision.kind = "Cold" -> reserve_container(m, decision.id, invocation.id)
      [] OTHER -> m

\* the queue item of invocation id in q
ItemOf(q, id) == CHOOSE it \in Range(q) : it.invocation_id = id

\* the admissions a dequeue call adds to the history
DequeueAdmissions(q, dequeued) ==
    [k \in 1..Len(dequeued) |->
        [id |-> dequeued[k].id, via |-> "dequeue",
         arrival_time |-> ItemOf(q, dequeued[k].id).time]]

InvInit ==
    /\ policy \in {"Naive", "FIFO"}
    /\ queue = <<>>
    /\ cm = [containers |-> <<>>, index |-> <<>>, slot |-> 0,
             cores |-> Host.cores, memory |-> Host.memory]
    /\ time = 0
    /\ inv_counter = 0
    /\ admitted = <<>>
    /\ last = [op |-> "none"]

\* a new invocation of some app arrives now and the host calls invoke
InvokeWith(invoke_op(_, _, _, _)) ==
    /\ inv_counter < MaxInvocations
    /\ \E app_id \in AppIds, slot \in 0..Len(cm.index) :
         LET invocation == [id |-> inv_counter, func_id |-> app_id, app_id |-> app_id,
                            arrival_time |-> time]
             r == invoke_op(queue, invocation, [cm EXCEPT !.slot = slot], time)
         IN /\ queue' = r.queue
            /\ cm' = [host_apply(r.cm, r.decision, invocation, time) EXCEPT !.slot = 0]
            /\ inv_counter' = inv_counter + 1
            /\ admitted' = IF r.decision.kind \in {"Warm", "Cold"}
                           THEN Append(admitted,
                                       [id |-> invocation.id, via |-> "invoke",
                                        arrival_time |-> invocation.arrival_time])
                           ELSE admitted
            /\ last' = [op |-> "invoke", invocation |-> invocation, time |-> time,
                        queue_before |-> queue,
                        cm_before |-> [cm EXCEPT !.slot = slot],
                        decision |-> r.decision]
    /\ UNCHANGED <<policy, time>>
    /\ UNCHANGED <<pevars, diskvars>>

NaiveInvoke == policy = "Naive" /\ InvokeWith(NaiveInvoker_invoke)

FIFOInvoke == policy = "FIFO" /\ InvokeWith(FIFOInvoker_invoke)

\* the host calls dequeue
DequeueWith(dequeue_op(_, _, _)) ==
    \E slot \in 0..Len(cm.index) :
    LET r == dequeue_op(queue, [cm EXCEPT !.slot = slot], time)
    IN /\ queue' = r.queue
       /\ cm' = [r.cm EXCEPT !.slot = 0]
       /\ admitted' = admitted \o DequeueAdmissions(queue, r.dequeued)
       /\ last' = [op |-> "dequeue", time |-> time, queue_before |-> queue,
                   cm_before |-> [cm EXCEPT !.slot = slot], dequeued |-> r.dequeued, visited |-> r.visited,
                   panicked |-> r.panicked]
       /\ UNCHANGED <<policy, time, inv_counter>>
       /\ UNCHANGED <<pevars, diskvars>>

NaiveDequeue == policy = "Naive" /\ DequeueWith(NaiveInvoker_dequeue)

FIFODequeue == policy = "FIFO" /\ DequeueWith(FIFOInvoker_dequeue)

\* the clock advances; a deployment that is due completes first
Tick ==
    /\ time < MaxTime
    /\ \A i \in 1..Len(cm.containers) :
         cm.containers[i].status = "Deploying" =>
            cm.containers[i].last_change + cm.containers[i].deployment_time > time
    /\ time' = time + 1
    /\ last' = [op |-> "env"]
    /\ UNCHANGED <<policy, queue, cm, inv_counter, admitted>>
    /\ UNCHANGED <<pevars, diskvars>>

\* a deployment completes: the container runs its reserved invocations, or is Idle
ContainerStart ==
    \E i \in 1..Len(cm.containers) :
        LET c == cm.containers[i]
        IN /\ c.status = "Deploying"
           /\ c.last_change + c.deployment_time = time
           /\ cm' = [cm EXCEPT !.containers[i] =
                        [c EXCEPT !.status = IF c.reserved = {} THEN "Idle" ELSE "Running",
                                  !.invocations = c.reserved,
                                  !.reserved = {},
                                  !.last_change = time]]
           /\ last' = [op |-> "env"]
           /\ UNCHANGED <<policy, queue, time, inv_counter, admitted>>
           /\ UNCHANGED <<pevars, diskvars>>

\* an invocation ends; a container left without invocations becomes Idle
InvocationEnd ==
    \E i \in 1..Len(cm.containers) :
        LET c == cm.containers[i]
        IN /\ c.status = "Running"
           /\ \E inv \in c.invocations :
                cm' = [cm EXCEPT !.containers[i] =
                          IF c.invocations = {inv}
                          THEN [c EXCEPT !.invocations = {}, !.status = "Idle",
                                         !.last_change = time]
                          ELSE [c EXCEPT !.invocations = @ \ {inv}]]
           /\ last' = [op |-> "env"]
           /\ UNCHANGED <<policy, queue, time, inv_counter, admitted>>
           /\ UNCHANGED <<pevars, diskvars>>

\* an Idle container is terminated and its resources are released
ContainerEnd ==
    \E i \in 1..Len(cm.containers) :
        LET c == cm.containers[i]
        IN /\ c.status = "Idle"
           /\ cm' = [cm EXCEPT !.containers[i] = [c EXCEPT !.status = "Terminated"],
                               !.cores = @ + get_app(c.app_id).cores,
                               !.memory = @ + get_app(c.app_id).memory]
           /\ last' = [op |-> "env"]
           /\ UNCHANGED <<policy, queue, time, inv_counter, admitted>>
           /\ UNCHANGED <<pevars, diskvars>>

InvNext ==
    \/ NaiveInvoke
    \/ FIFOInvoke
    \/ NaiveDequeue
    \/ FIFODequeue
    \/ Tick
    \/ ContainerStart
    \/ InvocationEnd
    \/ ContainerEnd

\* ------------------------------------------------------------------------
\* Properties of the invoker, checked under SpecInvoker
\* ------------------------------------------------------------------------
Ids(q) == [k \in 1..Len(q) |-> q[k].invocation_id]

DequeuedIds(d) == [k \in 1..Len(d) |-> d[k].id]

\* the manager as a call made now may see it: any place for a new container
CmViews == {[cm EXCEPT !.slot = s] : s \in 0..Len(cm.index)}

\* the wait of a candidate: 0 for Idle, remaining deployment time for Deploying
WaitOf(c, t) ==
    IF c.status = "Idle" THEN 0 ELSE c.deployment_time + c.last_change - t

\* C1: in one FIFOInvoker.dequeue call, try_invoke is called on the items from
\* the front in order; once it returns Rejected for the front item the call
\* ends: that item and all items behind it stay in the queue, in order, and
\* only the items before it are returned.
C1_FifoStopsAtRejectedHead ==
    (last.op = "dequeue" /\ policy = "FIFO") =>
        LET n == Len(last.visited)
            k == Len(last.dequeued)
        IN /\ \A i \in 1..n :
                /\ last.visited[i].id = last.queue_before[i].invocation_id
                /\ last.visited[i].kind = "Rejected" => i = n /\ k = n - 1
           /\ DequeuedIds(last.dequeued) = SubSeq(Ids(last.queue_before), 1, k)
           /\ queue = SubSeq(last.queue_before, k + 1, Len(last.queue_before))
           /\ queue # <<>> =>
                try_invoke(get_app(Head(queue).app_id), cm, last.time).decision = Rejected

\* C1 witness: a FIFO dequeue call ended at a Rejected front item while the
\* item behind it could have been admitted.
C1_Witness ==
    /\ last.op = "dequeue" /\ policy = "FIFO"
    /\ Len(queue) >= 2
    /\ last.visited # <<>>
    /\ last.visited[Len(last.visited)].kind = "Rejected"
    /\ try_invoke(get_app(queue[2].app_id), cm, last.time).decision # Rejected

Nondecreasing(seq) ==
    \A i, j \in 1..Len(seq) : i < j => seq[i].arrival_time <= seq[j].arrival_time

\* C2 (as claimed): with the FIFOInvoker, invocations are admitted, by invoke
\* or by dequeue, in non-decreasing order of arrival_time.
C2_FifoAdmissionOrderAll == policy = "FIFO" => Nondecreasing(admitted)

\* C2 (amended): with the FIFOInvoker, the invocations admitted by dequeue calls
\* are admitted in non-decreasing order of arrival_time.
C2_FifoDequeueAdmissionOrder ==
    policy = "FIFO" =>
        Nondecreasing(SelectSeq(admitted, LAMBDA a : a.via = "dequeue"))

\* C2 witness: the FIFOInvoker admitted, by dequeue, two invocations that
\* arrived at different times.
C2_Witness ==
    /\ policy = "FIFO"
    /\ \E i, j \in 1..Len(admitted) :
          /\ i < j
          /\ admitted[i].via = "dequeue" /\ admitted[j].via = "dequeue"
          /\ admitted[i].arrival_time < admitted[j].arrival_time

\* C3: NaiveInvoker.dequeue calls try_invoke once on every queued item, in
\* queue order; afterwards the queue holds exactly the items for which it
\* returned Rejected, in their original order, and the returned list holds
\* every other item exactly once.
C3_NaiveDequeuePartition ==
    (last.op = "dequeue" /\ policy = "Naive") =>
        LET qb == last.queue_before
            rejected(i) == last.visited[i].kind = "Rejected"
            RejectedIds == {qb[i].invocation_id : i \in {j \in 1..Len(qb) : rejected(j)}}
        IN /\ Len(last.visited) = Len(qb)
           /\ \A i \in 1..Len(qb) : last.visited[i].id = qb[i].invocation_id
           /\ queue = SelectSeq(qb, LAMBDA it : it.invocation_id \in RejectedIds)
           /\ DequeuedIds(last.dequeued) =
                 SelectSeq(Ids(qb), LAMBDA id : id \notin RejectedIds)

\* C3 witness: a Naive dequeue call that rejected and re-queued the first item
\* and admitted the item behind it.
C3_Witness ==
    /\ last.op = "dequeue" /\ policy = "Naive"
    /\ Len(last.queue_before) >= 2
    /\ last.visited[1].kind = "Rejected"
    /\ last.visited[2].kind \in {"Warm", "Cold"}
    /\ Len(last.dequeued) = 1
    /\ queue = <<last.queue_before[1]>>

\* C4: invoke (both policies) returns Queued exactly when try_invoke yields
\* Rejected, and then the invocation is appended at the back of the queue;
\* otherwise it returns the decision of try_invoke and leaves the queue
\* unchanged.  It never returns Rejected.
C4_InvokeQueuesExactlyRejected ==
    last.op = "invoke" =>
        LET inv == last.invocation
            d == try_invoke(get_app(inv.app_id), last.cm_before, last.time).decision
        IN /\ (last.decision = Queued) <=> (d = Rejected)
           /\ d = Rejected =>
                /\ queue = Append(last.queue_before,
                                  InvokerQueueItem(inv.id, inv.func_id, inv.app_id,
                                                   inv.arrival_time))
                /\ queue_len(queue) = queue_len(last.queue_before) + 1
           /\ d # Rejected => last.decision = d /\ queue = last.queue_before
           /\ last.decision # Rejected

\* C4 witness: invoke returned Queued with items already in the queue.
C4_Witness ==
    /\ last.op = "invoke"
    /\ last.decision = Queued
    /\ last.queue_before # <<>>
    /\ policy = "Naive"

\* the candidates and the decision of try_invoke for app a on manager view m
Cands(m, a) == get_possible_containers(m, get_app(a), TRUE)

Decision(m, a) == try_invoke(get_app(a), m, time).decision

\* C5 (as claimed): when a candidate exists, try_invoke returns Warm(id) if and
\* only if the wait of the chosen candidate is 0, and Cold(id, wait) otherwise.
C5_WarmIffZeroWait ==
    \A m \in CmViews : \A a \in AppIds :
        Cands(m, a) # <<>> =>
            LET d == Decision(m, a)
                w == WaitOf(get_container(m, d.id), time)
            IN /\ d.kind \in {"Warm", "Cold"}
               /\ (d.kind = "Warm") <=> (w = 0)
               /\ d.kind = "Cold" => d.delay = w

\* C5 (amended): when a candidate exists, try_invoke returns Warm(id) if and
\* only if the chosen candidate is Idle (its wait is 0), and otherwise returns
\* Cold(id, wait), wait being the remaining deployment time of the chosen
\* Deploying candidate, which may be 0.
C5_WarmIffIdle ==
    \A m \in CmViews : \A a \in AppIds :
        Cands(m, a) # <<>> =>
            LET d == Decision(m, a)
                c == get_container(m, d.id)
            IN /\ d.kind \in {"Warm", "Cold"}
               /\ (d.kind = "Warm") <=> (c.status = "Idle")
               /\ d.kind = "Warm" => WaitOf(c, time) = 0
               /\ d.kind = "Cold" => c.status = "Deploying" /\ d.delay = WaitOf(c, time)

\* C5 witness: the chosen candidate is Deploying with no deployment time left,
\* so that the decision is Cold with delay 0.
C5_Witness ==
    \E a \in AppIds :
        /\ Cands(cm, a) # <<>>
        /\ get_container(cm, Decision(cm, a).id).status = "Deploying"
        /\ WaitOf(get_container(cm, Decision(cm, a).id), time) = 0

\* C6: try_invoke chooses, among the containers get_possible_containers yields,
\* one whose wait is minimal, and among those of minimal wait the first yielded.
C6_MinWaitFirstEncountered ==
    \A m \in CmViews : \A a \in AppIds :
        LET cands == Cands(m, a)
            d == Decision(m, a)
            w(i) == WaitOf(get_container(m, cands[i]), time)
        IN cands # <<>> =>
             \E k \in 1..Len(cands) :
                /\ cands[k] = d.id
                /\ \A j \in 1..Len(cands) : w(k) <= w(j)
                /\ \A j \in 1..(k - 1) : w(j) > w(k)

\* C6 witness: two candidates of equal, minimal wait, yielded in the opposite
\* order of their ids.
C6_Witness ==
    \E a \in AppIds :
        LET cands == Cands(cm, a)
        IN /\ Len(cands) >= 2
           /\ cands[1] > cands[2]
           /\ WaitOf(get_container(cm, cands[1]), time)
                 = WaitOf(get_container(cm, cands[2]), time)
           /\ Decision(cm, a).id = cands[1]

\* the app has a container that is Idle or Deploying
HasIdleOrDeploying(m, a) ==
    \E i \in 1..Len(m.containers) :
        /\ m.containers[i].app_id = a
        /\ m.containers[i].status \in {"Idle", "Deploying"}

\* the host has the free cores and memory the app needs
Fits(m, a) == m.cores >= get_app(a).cores /\ m.memory >= get_app(a).memory

\* C7: try_invoke calls try_deploy (and so changes the manager) only when the
\* app has no Idle and no Deploying container; when try_deploy succeeds it
\* returns Cold(new_id, deployment_time); it returns Rejected only when there
\* is no candidate and try_deploy fails.
C7_DeployOnlyWithoutCandidate ==
    \A m \in CmViews : \A a \in AppIds :
        LET r == try_invoke(get_app(a), m, time)
        IN /\ (r.tried_deploy \/ r.cm # m) => ~HasIdleOrDeploying(m, a)
           /\ (~HasIdleOrDeploying(m, a) /\ Fits(m, a)) =>
                /\ r.decision = Cold(Len(m.containers), get_app(a).deployment_time)
                /\ Len(r.cm.containers) = Len(m.containers) + 1
                /\ get_container(r.cm, r.decision.id).status = "Deploying"
           /\ r.decision = Rejected => ~HasIdleOrDeploying(m, a) /\ ~Fits(m, a)
           /\ (~HasIdleOrDeploying(m, a) /\ ~Fits(m, a)) => r.decision = Rejected

\* C7 witness: with containers present, one app without a candidate gets a
\* newly deployed container, and another app without a candidate is Rejected.
C7_Witness ==
    \E a, b \in AppIds :
        /\ Len(cm.containers) > 0
        /\ ~HasIdleOrDeploying(cm, a) /\ Fits(cm, a)
        /\ Decision(cm, a).kind = "Cold" /\ Decision(cm, a).id = Len(cm.containers)
        /\ ~HasIdleOrDeploying(cm, b) /\ ~Fits(cm, b)
        /\ Decision(cm, b) = Rejected

\* ========================================================================
\* Pending events of the model checker (pending_events.rs)
\* ========================================================================
Procs == {"p1", "p2"}

TimerNames == {"x", "y"}

\* the timer delays in use
Delays == {1, 2}

\* McEvent (crate::mc::events), the four variants
MessageReceived(msg, src, dest) ==
    [type |-> "MessageReceived", msg |-> msg, src |-> src, dest |-> dest]

TimerFired(proc, timer, timer_delay) ==
    [type |-> "TimerFired", proc |-> proc, timer |-> timer, timer_delay |-> timer_delay]

TimerCancelled(proc, timer) == [type |-> "TimerCancelled", proc |-> proc, timer |-> timer]

MessageDropped(msg, src, dest) ==
    [type |-> "MessageDropped", msg |-> msg, src |-> src, dest |-> dest]

\* the (proc, timer) keys of the timers in use
TimerKeys == {<<"p1", n>> : n \in TimerNames} \cup {<<"p2", "x">>}

\* the events the system under test produces in the model
EventInputs ==
    {TimerFired(k[1], k[2], d) : k \in TimerKeys, d \in Delays}
    \cup {MessageReceived("a", "p1", "p2"), MessageReceived("b", "p2", "p1")}
    \cup {TimerCancelled("p1", "x"), MessageDropped("a", "p1", "p2")}

\* ------------------------------------------------------------------------
\* DependencyResolver (crate::mc::dependency).  messages: one FIFO of
\* (msg, id) per (src, dest); timers: per process the pending (delay, id),
\* kept in insertion order.
\* ------------------------------------------------------------------------
NewResolver ==
    [messages |-> [sd \in Procs \X Procs |-> <<>>],
     timers |-> [p \in Procs |-> <<>>]]

\* a timer entry a comes before b: smaller delay, or equal delay and inserted earlier
\* (i, j are their places in insertion order)
TimerBefore(a, i, b, j) == a.delay < b.delay \/ (a.delay = b.delay /\ i < j)

\* the place of the minimum of a non-empty timer list
MinTimerIndex(ts) ==
    CHOOSE i \in 1..Len(ts) : \A j \in 1..Len(ts) : j # i => TimerBefore(ts[i], i, ts[j], j)

\* add_message: push to the pair's queue; true iff it is now at the head
add_message(res, msg, src, dest, id) ==
    [ok |-> res.messages[<<src, dest>>] = <<>>,
     res |-> [res EXCEPT !.messages[<<src, dest>>] = Append(@, [msg |-> msg, id |-> id])]]

\* remove_message: pop the head of the pair's queue; the id of the new head, if any
remove_message(res, msg, src, dest) ==
    LET q == Tail(res.messages[<<src, dest>>])
    IN [unblocked |-> IF q = <<>> THEN <<>> ELSE <<Head(q).id>>,
        res |-> [res EXCEPT !.messages[<<src, dest>>] = q]]

\* add_timer: insert; true iff it is now the minimum of the process
add_timer(res, proc, delay, id) ==
    LET ts == Append(res.timers[proc], [delay |-> delay, id |-> id])
    IN [ok |-> MinTimerIndex(ts) = Len(ts),
        res |-> [res EXCEPT !.timers[proc] = ts]]

\* remove_timer: remove by id; the ids that become minimal
remove_timer(res, id) ==
    LET holds(p) == \E i \in 1..Len(res.timers[p]) : res.timers[p][i].id = id
    IN IF ~\E p \in Procs : holds(p)
       THEN [unblocked |-> {}, res |-> res]
       ELSE LET p == CHOOSE q \in Procs : holds(q)
                ts == res.timers[p]
                was_min == ts[MinTimerIndex(ts)].id = id
                rest == SelectSeq(ts, LAMBDA e : e.id # id)
            IN [unblocked |-> IF was_min /\ rest # <<>>
                              THEN {rest[MinTimerIndex(rest)].id} ELSE {},
                res |-> [res EXCEPT !.timers[p] = rest]]

\* ------------------------------------------------------------------------
\* PendingEvents (pending_events.rs:9-114)
\* ------------------------------------------------------------------------
\* BTreeMap insert / remove on a function
MapInsert(f, k, v) == [x \in DOMAIN f \cup {k} |-> IF x = k THEN v ELSE f[x]]

MapRemove(f, k) == [x \in DOMAIN f \ {k} |-> f[x]]

SetMin(S) == CHOOSE x \in S : \A y \in S : x <= y

\* PendingEvents::new (pending_events.rs:20-29)
PendingEvents_new ==
    [events |-> <<>>, timer_mapping |-> <<>>, available_events |-> {},
     directives |-> {}, resolver |-> NewResolver, id_counter |-> 0]

\* mutant of push_with_fixed_id: a TimerFired is made available whatever add_timer says
push_with_fixed_id_TimerAlwaysAvailable(self, event, id) ==
    IF id \in DOMAIN self.events
    THEN [pe |-> self, id |-> id, panicked |-> TRUE]
    ELSE LET s1 ==
               CASE event.type = "MessageReceived" ->
                       LET r == add_message(self.resolver, event.msg, event.src,
                                            event.dest, id)
                       IN [self EXCEPT
                             !.resolver = r.res,
                             !.available_events = IF r.ok THEN @ \cup {id} ELSE @]
                 [] event.type = "TimerFired" ->
                       LET r == add_timer(self.resolver, event.proc, event.timer_delay, id)
                       IN [self EXCEPT
                             !.timer_mapping =
                                 MapInsert(@, <<event.proc, event.timer>>, id),
                             !.resolver = r.res,
                             !.available_events = @ \cup {id}]
                 [] OTHER -> [self EXCEPT !.directives = @ \cup {id}]
         IN [pe |-> [s1 EXCEPT !.events = MapInsert(@, id, event)],
             id |-> id, panicked |-> FALSE]

\* mutant of push_with_fixed_id: a MessageReceived is made available whatever
\* add_message says
push_with_fixed_id_MessageAlwaysAvailable(self, event, id) ==
    IF id \in DOMAIN self.events
    THEN [pe |-> self, id |-> id, panicked |-> TRUE]
    ELSE LET s1 ==
               CASE event.type = "MessageReceived" ->
                       LET r == add_message(self.resolver, event.msg, event.src,
                                            event.dest, id)
                       IN [self EXCEPT
                             !.resolver = r.res,
                             !.available_events = @ \cup {id}]
                 [] event.type = "TimerFired" ->
                       LET r == add_timer(self.resolver, event.proc, event.timer_delay, id)
                       IN [self EXCEPT
                             !.timer_mapping =
                                 MapInsert(@, <<event.proc, event.timer>>, id),
                             !.resolver = r.res,
                             !.available_events = IF r.ok THEN @ \cup {id} ELSE @]
                 [] OTHER -> [self EXCEPT !.directives = @ \cup {id}]
         IN [pe |-> [s1 EXCEPT !.events = MapInsert(@, id, event)],
             id |-> id, panicked |-> FALSE]

\* PendingEvents::push_with_fixed_id (pending_events.rs:39-66)
push_with_fixed_id(self, event, id) ==
    IF id \in DOMAIN self.events
    THEN [pe |-> self, id |-> id, panicked |-> TRUE]
    ELSE LET s1 ==
               CASE event.type = "MessageReceived" ->
                       LET r == add_message(self.resolver, event.msg, event.src,
                                            event.dest, id)
                       IN [self EXCEPT
                             !.resolver = r.res,
                             !.available_events = IF r.ok THEN @ \cup {id} ELSE @]
                 [] event.type = "TimerFired" ->
                       LET r == add_timer(self.resolver, event.proc, event.timer_delay, id)
                       IN [self EXCEPT
                             !.timer_mapping =
                                 MapInsert(@, <<event.proc, event.timer>>, id),
                             !.resolver = r.res,
                             !.available_events = IF r.ok THEN @ \cup {id} ELSE @]
                 [] event.type = "TimerCancelled" ->
                       [self EXCEPT !.directives = @ \cup {id}]
                 [] event.type = "MessageDropped" ->
                       [self EXCEPT !.directives = @ \cup {id}]
         IN [pe |-> [s1 EXCEPT !.events = MapInsert(@, id, event)],
             id |-> id, panicked |-> FALSE]

\* PendingEvents::push (pending_events.rs:32-36)
push(self, event) ==
    push_with_fixed_id([self EXCEPT !.id_counter = @ + 1], event, self.id_counter)

\* PendingEvents::get (pending_events.rs:69-71)
get(self, id) == IF id \in DOMAIN self.events THEN <<self.events[id]>> ELSE <<>>

\* mutant of available_events: the directive is added to the available events
available_events_DirectiveAdded(self) ==
    IF self.directives # {}
    THEN self.available_events \cup {SetMin(self.directives)}
    ELSE self.available_events

\* PendingEvents::available_events (pending_events.rs:74-80)
available_events(self) ==
    IF self.directives # {} THEN {SetMin(self.directives)} ELSE self.available_events

\* mutant of available_events_num: the directives are not looked at
available_events_num_NoDirectives(self) == Cardinality(self.available_events)

\* PendingEvents::available_events_num (pending_events.rs:83-88)
available_events_num(self) ==
    IF self.directives # {} THEN 1 ELSE Cardinality(self.available_events)

\* mutant of pop: the timers the resolver unblocks are not made available
pop_TimersNotUnblocked(self, event_id) ==
    IF event_id \notin DOMAIN self.events
    THEN [pe |-> self, result |-> <<>>, panicked |-> TRUE]
    ELSE LET result == self.events[event_id]
             s1 == [self EXCEPT !.events = MapRemove(@, event_id),
                                !.directives = @ \ {event_id},
                                !.available_events = @ \ {event_id}]
             s2 == IF result.type = "TimerFired"
                   THEN [s1 EXCEPT !.resolver = remove_timer(s1.resolver, event_id).res]
                   ELSE s1
             s3 == IF result.type = "MessageReceived"
                   THEN LET r == remove_message(s2.resolver, result.msg, result.src,
                                                result.dest)
                        IN [s2 EXCEPT !.resolver = r.res,
                                      !.available_events = @ \cup Range(r.unblocked)]
                   ELSE s2
         IN [pe |-> s3, result |-> <<result>>, panicked |-> FALSE]

\* mutant of pop: popping a TimerCancelled also drops the pending TimerFired events
\* of its (proc, timer)
pop_CancelDropsTimer(self, event_id) ==
    IF event_id \notin DOMAIN self.events
    THEN [pe |-> self, result |-> <<>>, panicked |-> TRUE]
    ELSE LET result == self.events[event_id]
             s1 == [self EXCEPT !.events = MapRemove(@, event_id),
                                !.directives = @ \ {event_id},
                                !.available_events = @ \ {event_id}]
             s2 == IF result.type = "TimerFired"
                   THEN LET r == remove_timer(s1.resolver, event_id)
                        IN [s1 EXCEPT !.resolver = r.res,
                                      !.available_events = @ \cup r.unblocked]
                   ELSE s1
             s3 == IF result.type = "MessageReceived"
                   THEN LET r == remove_message(s2.resolver, result.msg, result.src,
                                                result.dest)
                        IN [s2 EXCEPT !.resolver = r.res,
                                      !.available_events = @ \cup Range(r.unblocked)]
                   ELSE s2
             dropped == IF result.type = "TimerCancelled"
                        THEN {id \in DOMAIN s3.events :
                                 /\ s3.events[id].type = "TimerFired"
                                 /\ s3.events[id].proc = result.proc
                                 /\ s3.events[id].timer = result.timer}
                        ELSE {}
             s4 == [s3 EXCEPT
                      !.events = [id \in DOMAIN s3.events \ dropped |-> s3.events[id]],
                      !.available_events = @ \ dropped]
         IN [pe |-> s4, result |-> <<result>>, panicked |-> FALSE]

\* PendingEvents::pop (pending_events.rs:99-113); unwrap of a missing id panics
pop(self, event_id) ==
    IF event_id \notin DOMAIN self.events
    THEN [pe |-> self, result |-> <<>>, panicked |-> TRUE]
    ELSE LET result == self.events[event_id]
             s1 == [self EXCEPT !.events = MapRemove(@, event_id),
                                !.directives = @ \ {event_id},
                                !.available_events = @ \ {event_id}]
             s2 == IF result.type = "TimerFired"
                   THEN LET r == remove_timer(s1.resolver, event_id)
                        IN [s1 EXCEPT !.resolver = r.res,
                                      !.available_events = @ \cup r.unblocked]
                   ELSE s1
             s3 == IF result.type = "MessageReceived"
                   THEN LET r == remove_message(s2.resolver, result.msg, result.src,
                                                result.dest)
                        IN [s2 EXCEPT !.resolver = r.res,
                                      !.available_events = @ \cup Range(r.unblocked)]
                   ELSE s2
         IN [pe |-> s3, result |-> <<result>>, panicked |-> FALSE]

\* PendingEvents::cancel_timer (pending_events.rs:91-96)
cancel_timer(self, proc, timer) ==
    IF <<proc, timer>> \in DOMAIN self.timer_mapping
    THEN pop([self EXCEPT !.timer_mapping = MapRemove(@, <<proc, timer>>)],
             self.timer_mapping[<<proc, timer>>])
    ELSE [pe |-> self, result |-> <<>>, panicked |-> FALSE]

\* the ids of the pending TimerFired events of timer (proc, timer)
PendingTimersOf(self, proc, timer) ==
    {id \in DOMAIN self.events :
        /\ self.events[id].type = "TimerFired"
        /\ self.events[id].proc = proc
        /\ self.events[id].timer = timer}

PEInitWith(inputs) ==
    /\ pe = PendingEvents_new
    /\ pe_inputs = inputs
    /\ pe_aborted = FALSE
    /\ fired = [p \in Procs |-> <<>>]
    /\ late = {}
    /\ assigned = {}
    /\ pe_last = [op |-> "none"]

\* the events passed to push_with_fixed_id, and to push where the ids are studied
FixedInputs ==
    {TimerFired("p1", "x", 1), MessageReceived("a", "p1", "p2"), TimerCancelled("p1", "x")}

PEInit == PEInitWith(EventInputs)

\* the system under test produces an event and the model checker pushes it
Push ==
    /\ ~pe_aborted
    /\ pe.id_counter < MaxEvents
    /\ \E event \in pe_inputs :
         LET r == push(pe, event)
         IN /\ pe' = r.pe
            /\ pe_aborted' = r.panicked
            /\ late' = IF event.type = "TimerFired" /\ r.id \notin r.pe.available_events
                       THEN late \cup {r.id} ELSE late
            /\ assigned' = assigned \cup {r.id}
            /\ pe_last' = [op |-> "push", id |-> r.id, fresh |-> r.id \notin assigned]
    /\ UNCHANGED <<fired, pe_inputs>>
    /\ UNCHANGED <<invvars, diskvars>>

\* the model checker takes one of the available events
Pop ==
    /\ ~pe_aborted
    /\ \E id \in available_events(pe) :
         LET r == pop(pe, id)
             event == IF r.panicked THEN [type |-> "none"] ELSE r.result[1]
         IN /\ pe' = r.pe
            /\ pe_aborted' = r.panicked
            /\ fired' = IF event.type = "TimerFired"
                        THEN [fired EXCEPT ![event.proc] =
                                 <<[delay |-> event.timer_delay, id |-> id]>>]
                        ELSE fired
            /\ pe_last' = [op |-> "pop", id |-> id, event |-> event,
                           prev_fired |-> IF event.type = "TimerFired"
                                          THEN fired[event.proc] ELSE <<>>]
    /\ UNCHANGED <<late, assigned, pe_inputs>>
    /\ UNCHANGED <<invvars, diskvars>>

\* a process cancels one of its timers
CancelTimer ==
    /\ ~pe_aborted
    /\ \E key \in TimerKeys :
         LET r == cancel_timer(pe, key[1], key[2])
         IN /\ pe' = r.pe
            /\ pe_aborted' = r.panicked
            /\ pe_last' = [op |-> "cancel_timer", removed |-> r.result,
                           pending |-> PendingTimersOf(pe, key[1], key[2])]
    /\ UNCHANGED <<fired, late, assigned, pe_inputs>>
    /\ UNCHANGED <<invvars, diskvars>>

\* the model checker stores an event under an id of its choice that is not in
\* the store (the precondition of push_with_fixed_id): it puts back the event
\* it has just popped, or stores an event under an id not used so far
PushWithFixedId ==
    /\ ~pe_aborted
    /\ \E event \in FixedInputs \cup {e \in EventInputs : pe_last.op = "pop" /\ e = pe_last.event},
          id \in 0..(MaxEvents - 1) :
         /\ id \notin DOMAIN pe.events
         /\ \/ id \notin assigned /\ event \in FixedInputs
            \/ pe_last.op = "pop" /\ id = pe_last.id /\ event = pe_last.event
         /\ LET r == push_with_fixed_id(pe, event, id)
            IN /\ pe' = r.pe
               /\ pe_aborted' = r.panicked
               /\ late' = IF event.type = "TimerFired" /\ id \notin r.pe.available_events
                          THEN late \cup {id} ELSE late \ {id}
               /\ assigned' = assigned \cup {id}
               /\ pe_last' = [op |-> "push_with_fixed_id", id |-> id,
                              ahead |-> id >= pe.id_counter]
    /\ UNCHANGED <<fired, pe_inputs>>
    /\ UNCHANGED <<invvars, diskvars>>

PENext ==
    \/ Push
    \/ Pop
    \/ CancelTimer

\* ========================================================================
\* Disk storage model (crates/dslab-storage/src/disk.rs)
\* ========================================================================
\* Disk capacity used by the model (DiskBuilder::capacity).
DiskCapacity == 3

\* the sizes of the requests: two that fit and one above the capacity
Sizes == {1, 2, DiskCapacity + 1}

\* the sizes passed to mark_free
FreeSizes == {1, 2}

\* the components that use the disk; they issue the requests in turn
Requesters == {"u1", "u2"}

RequesterOf(n) == IF n % 2 = 0 THEN "u1" ELSE "u2"

\* u64::MAX, the value of next_read_event / next_write_event before any event
NoEvent == -1

\* ------------------------------------------------------------------------
\* SimulationContext (dslab_core): clock, the disk's scheduled events, and the
\* events emitted to the requesters, kept as a bag (event -> number of copies).
\* The ids of the disk's own events are allocated in emission order.
\* ------------------------------------------------------------------------
NewContext == [time |-> 0, queue |-> {}, event_count |-> 0, outbox |-> <<>>]

\* the number of copies of event ev emitted so far
Emitted(c, ev) == IF ev \in DOMAIN c.outbox THEN c.outbox[ev] ELSE 0

\* emit_self(data, delay): schedule an event for the disk itself
emit_self(c, kind, delay) ==
    [id |-> c.event_count,
     ctx |-> [c EXCEPT
                !.queue = @ \cup {[id |-> c.event_count, kind |-> kind,
                                   time |-> c.time + delay]},
                !.event_count = @ + 1]]

\* emit_now(data, dest): deliver an event to dest at the current time
emit_now(c, data, dest) ==
    LET ev == [data |-> data, dest |-> dest]
    IN [c EXCEPT !.outbox = MapInsert(@, ev, Emitted(c, ev) + 1)]

\* cancel_event(id): the event, if still scheduled, will not be delivered
cancel_event(c, id) == [c EXCEPT !.queue = {e \in @ : e.id # id}]

\* the scheduled event the kernel delivers next: smallest (time, id)
NextEvent(c) ==
    CHOOSE e \in c.queue :
        \A f \in c.queue : e.time < f.time \/ (e.time = f.time /\ e.id <= f.id)

\* ------------------------------------------------------------------------
\* FairThroughputSharingModel (dslab_models): the activities in insertion
\* order, each with its remaining work.  The resource does one unit of work
\* per unit of time, shared equally; work is counted in 1/Scale units and
\* completion times are rounded up to the clock tick.
\* ------------------------------------------------------------------------
Scale == 12

Rate(n) == Scale \div n

TicksLeft(remaining, n) == (remaining + Rate(n) - 1) \div Rate(n)

NewModel == <<>>

model_insert(m, activity, work) ==
    Append(m, [activity |-> activity, remaining |-> work * Scale])

\* the place of the activity that completes first; ties by insertion order
model_first(m) ==
    CHOOSE i \in 1..Len(m) :
        \A j \in 1..Len(m) :
            j # i => \/ m[i].remaining < m[j].remaining
                     \/ (m[i].remaining = m[j].remaining /\ i < j)

model_peek(m, now) ==
    IF m = <<>> THEN <<>>
    ELSE LET e == m[model_first(m)]
         IN <<[time |-> now + TicksLeft(e.remaining, Len(m)), activity |-> e.activity]>>

model_pop(m, now) ==
    IF m = <<>> THEN [result |-> <<>>, model |-> m]
    ELSE [result |-> model_peek(m, now),
          model |-> [k \in 1..(Len(m) - 1) |->
                        IF k < model_first(m) THEN m[k] ELSE m[k + 1]]]

\* the work done during one unit of time
model_advance(m) ==
    [k \in 1..Len(m) |->
        [m[k] EXCEPT !.remaining = IF @ > Rate(Len(m)) THEN @ - Rate(Len(m)) ELSE 0]]

\* ------------------------------------------------------------------------
\* Disk (disk.rs:164-321).  The operations work on st = [disk, ctx].
\* ------------------------------------------------------------------------
DiskActivity(request_id, requester, size) ==
    [request_id |-> request_id, requester |-> requester, size |-> size]

\* the events of crate::events the disk emits
DataReadCompleted(request_id, size) ==
    [type |-> "DataReadCompleted", request_id |-> request_id, size |-> size]

DataWriteCompleted(request_id, size) ==
    [type |-> "DataWriteCompleted", request_id |-> request_id, size |-> size]

DataReadFailed(request_id) == [type |-> "DataReadFailed", request_id |-> request_id]

DataWriteFailed(request_id) == [type |-> "DataWriteFailed", request_id |-> request_id]

\* DiskBuilder::build (disk.rs:142-159)
Disk_build ==
    [capacity |-> DiskCapacity, used |-> 0,
     read_throughput_model |-> NewModel, write_throughput_model |-> NewModel,
     next_request_id |-> 0, next_read_event |-> NoEvent, next_write_event |-> NoEvent]

\* Disk::schedule_next_read_event (disk.rs:188-192)
schedule_next_read_event(st) ==
    LET p == model_peek(st.disk.read_throughput_model, st.ctx.time)
    IN IF p = <<>> THEN st
       ELSE LET e == emit_self(st.ctx, "DiskReadActivityCompleted",
                               p[1].time - st.ctx.time)
            IN [disk |-> [st.disk EXCEPT !.next_read_event = e.id], ctx |-> e.ctx]

\* Disk::schedule_next_write_event (disk.rs:194-200)
schedule_next_write_event(st) ==
    LET p == model_peek(st.disk.write_throughput_model, st.ctx.time)
    IN IF p = <<>> THEN st
       ELSE LET e == emit_self(st.ctx, "DiskWriteActivityCompleted",
                               p[1].time - st.ctx.time)
            IN [disk |-> [st.disk EXCEPT !.next_write_event = e.id], ctx |-> e.ctx]

\* mutant of on_read_completed: the next completion is not scheduled
on_read_completed_NoReschedule(st) ==
    LET r == model_pop(st.disk.read_throughput_model, st.ctx.time)
    IN IF r.result = <<>> THEN [st |-> st, panicked |-> TRUE]
       ELSE LET activity == r.result[1].activity
                c1 == emit_now(st.ctx,
                               DataReadCompleted(activity.request_id, activity.size),
                               activity.requester)
            IN [st |-> [disk |-> [st.disk EXCEPT !.read_throughput_model = r.model],
                        ctx |-> c1],
                panicked |-> FALSE]

\* Disk::on_read_completed (disk.rs:202-212); pop().unwrap() panics on an empty model
on_read_completed(st) ==
    LET r == model_pop(st.disk.read_throughput_model, st.ctx.time)
    IN IF r.result = <<>> THEN [st |-> st, panicked |-> TRUE]
       ELSE LET activity == r.result[1].activity
                c1 == emit_now(st.ctx,
                               DataReadCompleted(activity.request_id, activity.size),
                               activity.requester)
            IN [st |-> schedule_next_read_event(
                          [disk |-> [st.disk EXCEPT !.read_throughput_model = r.model],
                           ctx |-> c1]),
                panicked |-> FALSE]

\* Disk::on_write_completed (disk.rs:214-224)
on_write_completed(st) ==
    LET r == model_pop(st.disk.write_throughput_model, st.ctx.time)
    IN IF r.result = <<>> THEN [st |-> st, panicked |-> TRUE]
       ELSE LET activity == r.result[1].activity
                c1 == emit_now(st.ctx,
                               DataWriteCompleted(activity.request_id, activity.size),
                               activity.requester)
            IN [st |-> schedule_next_write_event(
                          [disk |-> [st.disk EXCEPT !.write_throughput_model = r.model],
                           ctx |-> c1]),
                panicked |-> FALSE]

\* mutant of read: a request above the capacity is reported as failed and
\* admitted all the same
read_FailedAndAdmitted(st, size, requester) ==
    LET request_id == st.disk.next_request_id
        d1 == [st.disk EXCEPT !.next_request_id = @ + 1]
        c1 == IF size > d1.capacity
              THEN emit_now(st.ctx, DataReadFailed(request_id), requester)
              ELSE st.ctx
        d2 == [d1 EXCEPT !.read_throughput_model =
                  model_insert(@, DiskActivity(request_id, requester, size), size)]
        c2 == cancel_event(c1, d2.next_read_event)
    IN [request_id |-> request_id,
        st |-> schedule_next_read_event([disk |-> d2, ctx |-> c2])]

\* mutant of read: the event scheduled before is not cancelled
read_NoCancel(st, size, requester) ==
    LET request_id == st.disk.next_request_id
        d1 == [st.disk EXCEPT !.next_request_id = @ + 1]
    IN IF size > d1.capacity
       THEN [request_id |-> request_id,
             st |-> [disk |-> d1,
                     ctx |-> emit_now(st.ctx, DataReadFailed(request_id), requester)]]
       ELSE LET d2 == [d1 EXCEPT !.read_throughput_model =
                          model_insert(@, DiskActivity(request_id, requester, size), size)]
            IN [request_id |-> request_id,
                st |-> schedule_next_read_event([disk |-> d2, ctx |-> st.ctx])]

\* Disk::read (disk.rs:229-258)
read(st, size, requester) ==
    LET request_id == st.disk.next_request_id
        d1 == [st.disk EXCEPT !.next_request_id = @ + 1]
    IN IF size > d1.capacity
       THEN [request_id |-> request_id,
             st |-> [disk |-> d1,
                     ctx |-> emit_now(st.ctx, DataReadFailed(request_id), requester)]]
       ELSE LET d2 == [d1 EXCEPT !.read_throughput_model =
                          model_insert(@, DiskActivity(request_id, requester, size), size)]
                c2 == cancel_event(st.ctx, d2.next_read_event)
            IN [request_id |-> request_id,
                st |-> schedule_next_read_event([disk |-> d2, ctx |-> c2])]

\* mutant of write: the request is admitted without looking at the free space
write_NoSpaceCheck(st, size, requester) ==
    LET request_id == st.disk.next_request_id
        d1 == [st.disk EXCEPT !.next_request_id = @ + 1]
        d2 == [d1 EXCEPT !.used = @ + size,
                         !.write_throughput_model =
                  model_insert(@, DiskActivity(request_id, requester, size), size)]
        c2 == cancel_event(st.ctx, d2.next_write_event)
    IN [request_id |-> request_id,
        st |-> schedule_next_write_event([disk |-> d2, ctx |-> c2])]

\* mutant of write: the event scheduled before is not cancelled
write_NoCancel(st, size, requester) ==
    LET request_id == st.disk.next_request_id
        d1 == [st.disk EXCEPT !.next_request_id = @ + 1]
        available == d1.capacity - d1.used
    IN IF available < size
       THEN [request_id |-> request_id,
             st |-> [disk |-> d1,
                     ctx |-> emit_now(st.ctx, DataWriteFailed(request_id), requester)]]
       ELSE LET d2 == [d1 EXCEPT !.used = @ + size,
                                 !.write_throughput_model =
                          model_insert(@, DiskActivity(request_id, requester, size), size)]
            IN [request_id |-> request_id,
                st |-> schedule_next_write_event([disk |-> d2, ctx |-> st.ctx])]

\* Disk::write (disk.rs:260-288); capacity - used does not underflow and
\* used + size does not overflow because used <= capacity and size <= available
write(st, size, requester) ==
    LET request_id == st.disk.next_request_id
        d1 == [st.disk EXCEPT !.next_request_id = @ + 1]
        available == d1.capacity - d1.used
    IN IF available < size
       THEN [request_id |-> request_id,
             st |-> [disk |-> d1,
                     ctx |-> emit_now(st.ctx, DataWriteFailed(request_id), requester)]]
       ELSE LET d2 == [d1 EXCEPT !.used = @ + size,
                                 !.write_throughput_model =
                          model_insert(@, DiskActivity(request_id, requester, size), size)]
                c2 == cancel_event(st.ctx, d2.next_write_event)
            IN [request_id |-> request_id,
                st |-> schedule_next_write_event([disk |-> d2, ctx |-> c2])]

\* mutant of mark_free: a successful call releases all the used space
mark_free_ReleasesAll(d, size) ==
    IF size <= d.used
    THEN [result |-> "Ok", disk |-> [d EXCEPT !.used = 0]]
    ELSE [result |-> "Err", disk |-> d]

\* mutant of mark_free: freeing exactly the used space is refused
mark_free_Strict(d, size) ==
    IF size < d.used
    THEN [result |-> "Ok", disk |-> [d EXCEPT !.used = @ - size]]
    ELSE [result |-> "Err", disk |-> d]

\* Disk::mark_free (disk.rs:290-296)
mark_free(d, size) ==
    IF size <= d.used
    THEN [result |-> "Ok", disk |-> [d EXCEPT !.used = @ - size]]
    ELSE [result |-> "Err", disk |-> d]

\* Disk::used_space (disk.rs:298-300)
used_space(d) == d.used

\* Disk::free_space (disk.rs:302-304)
free_space(d) == d.capacity - d.used

\* Disk::capacity (disk.rs:306-308)
capacity(d) == d.capacity

\* ------------------------------------------------------------------------
\* The disk in a simulation: requests from other components, the kernel
\* delivering the disk's own events, and the clock.
\* ------------------------------------------------------------------------
NoneOwed == [s \in 1..DiskCapacity |-> 0]

\* what the last call saw before it acted
Seen == [used |-> used_space(disk), free |-> free_space(disk)]

\* whether a call left the activities and the scheduled events as they were
SameActivities(d, c) ==
    /\ d.read_throughput_model = disk.read_throughput_model
    /\ d.write_throughput_model = disk.write_throughput_model
    /\ d.next_read_event = disk.next_read_event
    /\ d.next_write_event = disk.next_write_event
    /\ c.queue = ctx.queue

DiskInit ==
    /\ disk = Disk_build
    /\ ctx = NewContext
    /\ dk_aborted = FALSE
    /\ owed = NoneOwed
    /\ base_used = 0
    /\ dk_last = [op |-> "none"]

\* a component asks the disk to read
Read ==
    /\ ~dk_aborted
    /\ disk.next_request_id < MaxRequests
    /\ \E size \in Sizes :
         LET requester == RequesterOf(disk.next_request_id)
             r == read([disk |-> disk, ctx |-> ctx], size, requester)
         IN /\ disk' = r.st.disk
            /\ ctx' = r.st.ctx
            /\ dk_last' = [op |-> "read", size |-> size, requester |-> requester,
                           request_id |-> r.request_id, before |-> Seen,
                           same_activities |-> SameActivities(r.st.disk, r.st.ctx)]
    /\ UNCHANGED <<dk_aborted, owed, base_used>>
    /\ UNCHANGED <<invvars, pevars>>

\* a component asks the disk to write
Write ==
    /\ ~dk_aborted
    /\ disk.next_request_id < MaxRequests
    /\ \E size \in Sizes :
         LET requester == RequesterOf(disk.next_request_id)
             r == write([disk |-> disk, ctx |-> ctx], size, requester)
         IN /\ disk' = r.st.disk
            /\ ctx' = r.st.ctx
            /\ owed' = IF r.st.disk.used # disk.used
                       THEN [owed EXCEPT ![size] = @ + 1] ELSE owed
            /\ dk_last' = [op |-> "write", size |-> size, requester |-> requester,
                           request_id |-> r.request_id, before |-> Seen,
                           same_activities |-> SameActivities(r.st.disk, r.st.ctx)]
    /\ UNCHANGED <<dk_aborted, base_used>>
    /\ UNCHANGED <<invvars, pevars>>

\* a component frees space; a successful call that matches an admitted write
\* of the same size closes that pair, any other successful call starts a new
\* run of pairs
MarkFree ==
    /\ ~dk_aborted
    /\ \E size \in FreeSizes :
         LET r == mark_free(disk, size)
             paired == owed[size] > 0
         IN /\ disk' = r.disk
            /\ owed' = IF paired /\ r.result = "Ok" THEN [owed EXCEPT ![size] = @ - 1]
                       ELSE IF r.result = "Ok" THEN NoneOwed
                       ELSE owed
            /\ base_used' = IF ~paired /\ r.result = "Ok" THEN r.disk.used ELSE base_used
            /\ dk_last' = [op |-> "mark_free", size |-> size, result |-> r.result,
                           paired |-> paired, before |-> Seen,
                           rest_same |-> [r.disk EXCEPT !.used = disk.used] = disk]
    /\ UNCHANGED <<ctx, dk_aborted>>
    /\ UNCHANGED <<invvars, pevars>>

\* the activity the handler of an event of the given kind pops, if any
PoppedBy(kind) ==
    LET m == IF kind = "DiskReadActivityCompleted"
             THEN disk.read_throughput_model ELSE disk.write_throughput_model
    IN IF m = <<>> THEN <<>> ELSE <<m[model_first(m)].activity>>

\* the kernel delivers the disk's next scheduled event, which is due now
\* (EventHandler::on, disk.rs:323-334)
Deliver ==
    /\ ~dk_aborted
    /\ ctx.queue # {}
    /\ NextEvent(ctx).time <= ctx.time
    /\ \E e \in {NextEvent(ctx)} :
       \E r \in {IF e.kind = "DiskReadActivityCompleted"
                 THEN on_read_completed([disk |-> disk,
                                         ctx |-> [ctx EXCEPT !.queue = @ \ {e}]])
                 ELSE on_write_completed([disk |-> disk,
                                          ctx |-> [ctx EXCEPT !.queue = @ \ {e}]])} :
          /\ disk' = r.st.disk
          /\ ctx' = r.st.ctx
          /\ dk_aborted' = r.panicked
          /\ dk_last' = [op |-> "completed", kind |-> e.kind,
                         activity |-> PoppedBy(e.kind)]
    /\ UNCHANGED <<owed, base_used>>
    /\ UNCHANGED <<invvars, pevars>>

\* the clock advances when no scheduled event is due; the activities progress
DiskTick ==
    /\ ~dk_aborted
    /\ ctx.time < MaxTime
    /\ \A e \in ctx.queue : e.time > ctx.time
    /\ ctx' = [ctx EXCEPT !.time = @ + 1]
    /\ disk' = [disk EXCEPT !.read_throughput_model = model_advance(@),
                            !.write_throughput_model = model_advance(@)]
    /\ dk_last' = [op |-> "tick"]
    /\ UNCHANGED <<dk_aborted, owed, base_used>>
    /\ UNCHANGED <<invvars, pevars>>

\* the clock goes on past the horizon of the model while the disk holds
\* activities, so that each of them can be completed; DrainTime is more than
\* the time the work of MaxRequests activities takes
DrainTime == 4 * MaxRequests

DrainTick ==
    /\ ~dk_aborted
    /\ ctx.time >= MaxTime
    /\ ctx.time < MaxTime + DrainTime
    /\ disk.read_throughput_model # <<>> \/ disk.write_throughput_model # <<>>
    /\ \A e \in ctx.queue : e.time > ctx.time
    /\ ctx' = [ctx EXCEPT !.time = @ + 1]
    /\ disk' = [disk EXCEPT !.read_throughput_model = model_advance(@),
                            !.write_throughput_model = model_advance(@)]
    /\ dk_last' = [op |-> "tick"]
    /\ UNCHANGED <<dk_aborted, owed, base_used>>
    /\ UNCHANGED <<invvars, pevars>>

DiskNext ==
    \/ Read
    \/ Write
    \/ MarkFree
    \/ Deliver
    \/ DiskTick

\* ========================================================================
\* Specifications: each runs one subsystem and leaves the other as constructed
\* ========================================================================
\* the host starts with either invoker; the event store is empty and unused
InvokerInit == InvInit /\ PEInit /\ DiskInit

SpecInvoker == InvokerInit /\ [][InvNext]_vars

\* the event store starts empty; the host is idle and unused
PendingInit == PEInit /\ InvInit /\ policy = "FIFO" /\ DiskInit

SpecPending == PendingInit /\ [][PENext]_vars

\* the event store with push_with_fixed_id among its operations
PENextFixed ==
    \/ Push
    \/ PushWithFixedId
    \/ Pop
    \/ CancelTimer

\* the event store starts empty; the system produces the events of FixedInputs
PendingFixedInit ==
    PEInitWith(FixedInputs) /\ InvInit /\ policy = "FIFO" /\ DiskInit

\* the disk is new; the host and the event store are idle and unused
DiskSpecInit == DiskInit /\ InvInit /\ policy = "FIFO" /\ PEInit

SpecDisk == DiskSpecInit /\ [][DiskNext]_vars

\* the reads and writes of a simulation that runs on: the kernel keeps taking
\* its step, which delivers the due event or advances the clock
DiskLiveNext ==
    \/ Read
    \/ Write
    \/ Deliver
    \/ DiskTick
    \/ DrainTick

SpecDiskLive ==
    /\ DiskSpecInit
    /\ [][DiskLiveNext]_vars
    /\ WF_vars(Deliver \/ DiskTick \/ DrainTick)

SpecPendingFixed == PendingFixedInit /\ [][PENextFixed]_vars

\* ------------------------------------------------------------------------
\* Properties of the pending events, checked under SpecPending
\* ------------------------------------------------------------------------
\* the ids of the pending events of the given types
PendingOf(types) == {id \in DOMAIN pe.events : pe.events[id].type \in types}

PendingDirectives == PendingOf({"TimerCancelled", "MessageDropped"})

PendingTimers == PendingOf({"TimerFired"})

\* the pending timers of the process of timer n that were pushed before n and
\* have a delay that is at most n's
EarlierNotLater(n) ==
    {e \in PendingTimers :
        /\ e < n
        /\ pe.events[e].proc = pe.events[n].proc
        /\ pe.events[e].timer_delay <= pe.events[n].timer_delay}

\* the pending timers of the process of timer n that come before n in the
\* order (delay, push order)
Before(n) ==
    {e \in PendingTimers :
        /\ e # n
        /\ pe.events[e].proc = pe.events[n].proc
        /\ \/ pe.events[e].timer_delay < pe.events[n].timer_delay
           \/ pe.events[e].timer_delay = pe.events[n].timer_delay /\ e < n}

\* C8: whenever a TimerCancelled or MessageDropped event is pending,
\* available_events() has exactly one element, the smallest id of the pending
\* directives; no MessageReceived or TimerFired id is exposed.
C8_DirectivesDominate ==
    PendingDirectives # {} =>
        /\ pe.directives = PendingDirectives
        /\ available_events(pe) = {SetMin(PendingDirectives)}
        /\ Cardinality(available_events(pe)) = 1
        /\ available_events(pe) \cap PendingOf({"MessageReceived", "TimerFired"}) = {}

\* C8 witness: two directives are pending while a timer or message is available
\* in the store.
C8_Witness ==
    /\ Cardinality(PendingDirectives) >= 2
    /\ pe.available_events # {}
    /\ ~pe_aborted

\* C9 (as claimed): the TimerFired events of a process are popped in
\* non-decreasing timer_delay order, equal delays in insertion order.
C9_TimersPopInDelayOrder ==
    (pe_last.op = "pop" /\ pe_last.event.type = "TimerFired" /\ pe_last.prev_fired # <<>>) =>
        LET prev == pe_last.prev_fired[1]
        IN \/ prev.delay < pe_last.event.timer_delay
           \/ prev.delay = pe_last.event.timer_delay /\ prev.id < pe_last.id

\* C9 (amended): a TimerFired is never popped while a TimerFired of the same
\* process that was pushed before it, with a delay less than or equal to its
\* own, is still pending.
C9_TimerNotPoppedBeforeEarlier ==
    (pe_last.op = "pop" /\ pe_last.event.type = "TimerFired") =>
        \A e \in PendingTimers :
            (e < pe_last.id /\ pe.events[e].proc = pe_last.event.proc) =>
                pe.events[e].timer_delay > pe_last.event.timer_delay

\* C9 witness: the second timer of a process is popped, after an earlier timer
\* of smaller or equal delay, while a timer pushed later is still pending.
C9_Witness ==
    /\ pe_last.op = "pop" /\ pe_last.event.type = "TimerFired"
    /\ pe_last.prev_fired # <<>>
    /\ pe_last.prev_fired[1].id < pe_last.id
    /\ pe_last.prev_fired[1].delay <= pe_last.event.timer_delay
    /\ \E e \in PendingTimers : e > pe_last.id /\ pe.events[e].proc = pe_last.event.proc

\* C10 (as claimed): a TimerFired pushed while its process has a pending timer
\* of smaller or equal delay is not in available_events() while such an earlier
\* timer is pending, and is in available_events() once none is.
C10_LateTimerAvailableAfterEarlier ==
    \A n \in late \cap PendingTimers :
        /\ EarlierNotLater(n) # {} => n \notin available_events(pe)
        /\ EarlierNotLater(n) = {} => n \in available_events(pe)

\* C10 (amended): a TimerFired pushed while its process has a pending timer of
\* smaller or equal delay is not in available_events() while such an earlier
\* timer is pending; it is in available_events() once no timer of its process
\* with a smaller delay, or an equal delay and pushed earlier, is pending and
\* no directive is pending.
C10_LateTimerBlockedThenAvailable ==
    \A n \in late \cap PendingTimers :
        /\ EarlierNotLater(n) # {} => n \notin available_events(pe)
        /\ (Before(n) = {} /\ PendingDirectives = {}) => n \in available_events(pe)

\* C10 witness: a pop of a timer has just made a timer of the same process,
\* blocked when it was pushed, available.
C10_Witness ==
    /\ pe_last.op = "pop" /\ pe_last.event.type = "TimerFired"
    /\ \E n \in late \cap PendingTimers :
          /\ pe.events[n].proc = pe_last.event.proc
          /\ pe_last.id < n
          /\ pe_last.event.timer_delay <= pe.events[n].timer_delay
          /\ n \in available_events(pe)


\* the pending MessageReceived events of the ordered pair (src, dest)
PendingMessages(src, dest) ==
    {id \in PendingOf({"MessageReceived"}) :
        pe.events[id].src = src /\ pe.events[id].dest = dest}

\* C11: for every ordered pair (src, dest), at most one pending MessageReceived
\* of the pair is available, and it is the one pushed first; a MessageReceived
\* is popped only when every message of its pair pushed before it has been
\* popped, so the messages of a pair are popped in the order they were pushed.
C11_MessageFifo ==
    /\ \A src \in Procs, dest \in Procs :
          LET ms == PendingMessages(src, dest)
          IN /\ Cardinality(ms \cap pe.available_events) <= 1
             /\ ms \cap pe.available_events \subseteq {SetMin(ms \cup {MaxEvents + 1})}
             /\ ms \cap available_events(pe) \subseteq ms \cap pe.available_events
    /\ (pe_last.op = "pop" /\ pe_last.event.type = "MessageReceived") =>
          \A m \in PendingMessages(pe_last.event.src, pe_last.event.dest) :
              pe_last.id < m

\* C11 witness: the first of three pending messages of one pair has been
\* popped; the second is now the only available one and the third is blocked.
C11_Witness ==
    /\ pe_last.op = "pop" /\ pe_last.event.type = "MessageReceived"
    /\ ~pe_aborted
    /\ LET ms == PendingMessages(pe_last.event.src, pe_last.event.dest)
       IN /\ Cardinality(ms) >= 2
          /\ ms \cap pe.available_events = {SetMin(ms)}
          /\ ms \cap available_events(pe) = {SetMin(ms)}


\* C12: a cancel_timer(proc, name) called while a TimerFired for (proc, name)
\* is pending completes, removes a pending TimerFired of (proc, name) from the
\* store (get is absent, the id is not available) and from the resolver, and
\* every pending timer of the process that no other pending timer precedes is
\* available afterwards.
C12_CancelRemovesPendingTimer ==
    (pe_last.op = "cancel_timer" /\ pe_last.pending # {}) =>
        /\ ~pe_aborted
        /\ pe_last.removed # <<>>
        /\ \E id \in pe_last.pending :
              /\ get(pe, id) = <<>>
              /\ id \notin available_events(pe)
              /\ id \notin pe.available_events
              /\ \A p \in Procs : \A i \in 1..Len(pe.resolver.timers[p]) :
                    pe.resolver.timers[p][i].id # id
        /\ \A n \in PendingTimers :
              (pe.events[n].proc = pe_last.removed[1].proc /\ Before(n) = {}) =>
                  n \in pe.available_events

\* C12, the case that works: cancel_timer has removed the pending timer and a
\* timer of the same process that it blocked is available.
C12_CancelUnblocks ==
    /\ pe_last.op = "cancel_timer" /\ pe_last.pending # {}
    /\ ~pe_aborted
    /\ pe_last.removed # <<>>
    /\ \E n \in late \cap PendingTimers :
          /\ pe.events[n].proc = pe_last.removed[1].proc
          /\ n \in available_events(pe)


\* C14: in every reachable state available_events_num() is the number of
\* elements of the set available_events() returns.
C14_NumMatchesAvailable ==
    available_events_num(pe) = Cardinality(available_events(pe))

\* C14 witness: a directive is pending while two events are in the internal
\* available set, so the call returns 1 and not the size of that set.
C14_Witness ==
    /\ pe.directives # {}
    /\ Cardinality(pe.available_events) >= 2
    /\ available_events_num(pe) = 1
    /\ ~pe_aborted

\* the store holds exactly the given events under the ids 0, 1, ...
StoreIs(evs) ==
    /\ DOMAIN pe.events = 0..(Len(evs) - 1)
    /\ \A i \in 1..Len(evs) : pe.events[i - 1] = evs[i]

\* C15: on a new store, after push TimerFired(p1, "x", d) and push
\* TimerCancelled(p1, "x"), available_events() is exactly the id of the
\* TimerCancelled; after pop of that id the TimerFired is still stored and
\* available_events() is exactly its id.
C15_DirectivePreemption ==
    \A d \in Delays :
        /\ (pe.id_counter = 2 /\ ~pe_aborted
            /\ StoreIs(<<TimerFired("p1", "x", d), TimerCancelled("p1", "x")>>))
              => available_events(pe) = {1}
        /\ (pe.id_counter = 2 /\ pe_last.op = "pop" /\ pe_last.id = 1
            /\ pe_last.event = TimerCancelled("p1", "x")
            /\ fired["p1"] = <<>>
            /\ pe.timer_mapping = MapInsert(<<>>, <<"p1", "x">>, 0))
              => /\ get(pe, 0) # <<>>
                 /\ (get(pe, 0) = <<TimerFired("p1", "x", d)>>
                        => available_events(pe) = {0})

\* C15 witness: the scenario has run to its end: the TimerCancelled pushed
\* second has been popped and the TimerFired pushed first is what is left.
C15_Witness ==
    /\ pe.id_counter = 2 /\ pe_last.op = "pop" /\ pe_last.id = 1
    /\ pe_last.event = TimerCancelled("p1", "x")
    /\ StoreIs(<<TimerFired("p1", "x", 1)>>)
    /\ available_events(pe) = {0}
    /\ ~pe_aborted

\* ------------------------------------------------------------------------
\* Properties of the event ids, checked under SpecPendingFixed
\* ------------------------------------------------------------------------
\* C13: every push completes without the duplicate-id assertion and returns an
\* id that was never given to an event before, whatever push,
\* push_with_fixed_id, pop and cancel_timer calls came before it.
C13_PushIdsFresh ==
    pe_last.op = "push" => (~pe_aborted /\ pe_last.fresh)


\* ------------------------------------------------------------------------
\* Properties of the disk, checked under SpecDisk
\* ------------------------------------------------------------------------
\* C16: in every reachable state, whatever reads, writes, mark_free calls and
\* completions happened, used_space() + free_space() = capacity() and
\* 0 <= used_space() <= capacity().
C16_SpaceAccounting ==
    /\ used_space(disk) + free_space(disk) = capacity(disk)
    /\ 0 <= used_space(disk)
    /\ used_space(disk) <= capacity(disk)
    /\ free_space(disk) >= 0

\* C16 witness: the disk is full and a completion has just been handled.
C16_Witness ==
    /\ dk_last.op = "completed"
    /\ used_space(disk) = capacity(disk)
    /\ free_space(disk) = 0
    /\ ~dk_aborted

\* the space taken by the admitted writes that were not freed yet
RECURSIVE OwedUpTo(_)
OwedUpTo(n) == IF n = 0 THEN 0 ELSE n * owed[n] + OwedUpTo(n - 1)

\* C17: over a run of successful write(s) calls, each paired with a later
\* mark_free(s) of the same size, every such mark_free succeeds, the used space
\* is its value before the run plus the sizes still to be freed, and once
\* every write is freed used_space() is its value before the run.
C17_WriteFreeRoundTrip ==
    /\ used_space(disk) = base_used + OwedUpTo(DiskCapacity)
    /\ owed = NoneOwed => used_space(disk) = base_used
    /\ (dk_last.op = "mark_free" /\ dk_last.paired) => dk_last.result = "Ok"

\* C17 witness: a run of pairs that began with space already in use has just
\* ended with the mark_free of its last write.
C17_Witness ==
    /\ dk_last.op = "mark_free" /\ dk_last.paired /\ dk_last.result = "Ok"
    /\ owed = NoneOwed
    /\ base_used > 0
    /\ used_space(disk) = base_used


\* C18: mark_free(size) with size > used returns an error and leaves used and
\* the rest of the disk as they were; with size <= used it returns Ok and
\* decreases used by exactly size.
C18_MarkFree ==
    dk_last.op = "mark_free" =>
        /\ dk_last.size > dk_last.before.used =>
              /\ dk_last.result = "Err"
              /\ used_space(disk) = dk_last.before.used
              /\ dk_last.rest_same
        /\ dk_last.size <= dk_last.before.used =>
              /\ dk_last.result = "Ok"
              /\ used_space(disk) = dk_last.before.used - dk_last.size
              /\ dk_last.rest_same

\* C18 witness: a mark_free of more than the (non-zero) used space was refused
\* while a write was in progress.
C18_Witness ==
    /\ dk_last.op = "mark_free" /\ dk_last.result = "Err"
    /\ dk_last.before.used > 0
    /\ disk.write_throughput_model # <<>>

\* the events emitted so far that carry request id n
EventsOf(n) == {ev \in DOMAIN ctx.outbox : ev.data.request_id = n}

\* the request ids of the activities the disk holds
ActiveIds ==
    {disk.read_throughput_model[k].activity.request_id :
        k \in 1..Len(disk.read_throughput_model)}
    \cup {disk.write_throughput_model[k].activity.request_id :
        k \in 1..Len(disk.write_throughput_model)}

\* C19: a write of more than the free space, and a read of more than the
\* capacity, emits exactly one DataWriteFailed / DataReadFailed with the
\* returned request id to the requester, admits no activity, schedules nothing,
\* leaves used as it was and does not stop the disk; no Completed event is
\* ever emitted for a failed request id.
C19_CapacityViolation ==
    /\ (dk_last.op = "write" /\ dk_last.size > dk_last.before.free) =>
          /\ EventsOf(dk_last.request_id)
                = {[data |-> DataWriteFailed(dk_last.request_id),
                    dest |-> dk_last.requester]}
          /\ dk_last.same_activities
          /\ used_space(disk) = dk_last.before.used
          /\ ~dk_aborted
    /\ (dk_last.op = "read" /\ dk_last.size > capacity(disk)) =>
          /\ EventsOf(dk_last.request_id)
                = {[data |-> DataReadFailed(dk_last.request_id),
                    dest |-> dk_last.requester]}
          /\ dk_last.same_activities
          /\ used_space(disk) = dk_last.before.used
          /\ ~dk_aborted
    /\ \A ev \in DOMAIN ctx.outbox :
          ev.data.type \in {"DataReadFailed", "DataWriteFailed"} =>
              /\ ctx.outbox[ev] = 1
              /\ EventsOf(ev.data.request_id) = {ev}
              /\ ev.data.request_id \notin ActiveIds

\* C19 witness: a write and a read have failed, and the disk has since
\* completed another request.
C19_Witness ==
    /\ dk_last.op = "completed"
    /\ ~dk_aborted
    /\ \E ev \in DOMAIN ctx.outbox : ev.data.type = "DataWriteFailed"
    /\ \E ev \in DOMAIN ctx.outbox : ev.data.type = "DataReadFailed"

\* the scheduled, not cancelled and not yet delivered events of one kind
Outstanding(kind) == {e \in ctx.queue : e.kind = kind}

\* at most one event of the kind is outstanding, it is the one the disk
\* remembers, and it is due at the time peek() of the model gives; one is
\* outstanding whenever the model holds an activity
ScheduledFromPeek(kind, model, next_event) ==
    /\ Cardinality(Outstanding(kind)) <= 1
    /\ \A e \in Outstanding(kind) :
          /\ model # <<>>
          /\ e.time = model_peek(model, ctx.time)[1].time
          /\ e.id = next_event
    /\ (model # <<>> /\ ~dk_aborted) => Outstanding(kind) # {}

\* C20: at every moment at most one DiskReadActivityCompleted (resp.
\* DiskWriteActivityCompleted) event is outstanding, its time is the time
\* peek() of the read (resp. write) model gives, and one is outstanding
\* whenever the model is not empty.
C20_Rescheduling ==
    /\ ScheduledFromPeek("DiskReadActivityCompleted", disk.read_throughput_model,
                         disk.next_read_event)
    /\ ScheduledFromPeek("DiskWriteActivityCompleted", disk.write_throughput_model,
                         disk.next_write_event)

\* C20 witness: a read arrived while another was in progress and its event
\* was scheduled; the event was replaced by one for an earlier time.
C20_Witness ==
    /\ dk_last.op = "read"
    /\ Len(disk.read_throughput_model) >= 2
    /\ disk.next_read_event >= 1
    /\ Cardinality(Outstanding("DiskReadActivityCompleted")) = 1
    /\ model_first(disk.read_throughput_model) = Len(disk.read_throughput_model)


\* ------------------------------------------------------------------------
\* Completion of the admitted requests, checked under SpecDiskLive
\* ------------------------------------------------------------------------
RequestIds == 0..(MaxRequests - 1)

\* the Completed events emitted so far for request id n, with their numbers
CompletedOf(n) ==
    {ev \in EventsOf(n) : ev.data.type \in {"DataReadCompleted", "DataWriteCompleted"}}

\* exactly one Completed event was emitted for request id n, once
CompletedOnce(n) ==
    /\ n \notin ActiveIds
    /\ Cardinality(CompletedOf(n)) = 1
    /\ \A ev \in CompletedOf(n) : ctx.outbox[ev] = 1

\* an admitted request is held with the id, requester and size of the call; a
\* completion emits the Completed event of the popped activity's kind, id and
\* size to its requester; no request id gets two events
CompletionMatches ==
    /\ (dk_last.op \in {"read", "write"} /\ ~dk_last.same_activities) =>
          LET m == IF dk_last.op = "read" THEN disk.read_throughput_model
                   ELSE disk.write_throughput_model
          IN \E k \in 1..Len(m) :
                m[k].activity = DiskActivity(dk_last.request_id, dk_last.requester,
                                             dk_last.size)
    /\ (dk_last.op = "completed" /\ dk_last.activity # <<>>) =>
          LET a == dk_last.activity[1]
              data == IF dk_last.kind = "DiskReadActivityCompleted"
                      THEN DataReadCompleted(a.request_id, a.size)
                      ELSE DataWriteCompleted(a.request_id, a.size)
          IN /\ EventsOf(a.request_id) = {[data |-> data, dest |-> a.requester]}
             /\ CompletedOnce(a.request_id)
    /\ \A n \in RequestIds :
          /\ Cardinality(EventsOf(n)) <= 1
          /\ \A ev \in EventsOf(n) : ctx.outbox[ev] = 1 /\ n \notin ActiveIds
    /\ ~dk_aborted

\* C21: every admitted read or write is eventually completed: exactly one
\* DataReadCompleted / DataWriteCompleted with its request id and size is
\* emitted to its requester, whatever reads and writes arrive after it.
C21_CompletionLiveness ==
    /\ []CompletionMatches
    /\ \A n \in RequestIds : (n \in ActiveIds) ~> CompletedOnce(n)

\* C21 witness: a request admitted first has been completed after two later
\* requests were admitted, one of which is still in progress.
C21_Witness ==
    /\ dk_last.op = "completed"
    /\ dk_last.activity # <<>>
    /\ dk_last.activity[1].request_id = 0
    /\ CompletedOnce(0)
    /\ ActiveIds # {}
    /\ disk.next_request_id >= 3


\* ------------------------------------------------------------------------
\* The two dequeue policies compared, checked under SpecInvoker
\* ------------------------------------------------------------------------
\* the decision of try_invoke for a queued item on manager m at time t
ItemDecision(item, m, t) == try_invoke(get_app(item.app_id), m, t).decision

\* a dequeue call was just made on a queue [A, B] where try_invoke rejects A and
\* would admit B
HeadOfLineCase ==
    /\ last.op = "dequeue"
    /\ Len(last.queue_before) = 2
    /\ ItemDecision(last.queue_before[1], last.cm_before, last.time) = Rejected
    /\ ItemDecision(last.queue_before[2], last.cm_before, last.time).kind
          \in {"Warm", "Cold"}

\* C22: on a queue [A, B] where try_invoke rejects A and would admit B,
\* FIFOInvoker.dequeue admits nothing and leaves [A, B], and NaiveInvoker.dequeue
\* admits B and leaves [A]; the call made did what its policy's dequeue does.
C22_HeadOfLine ==
    HeadOfLineCase =>
        LET qb == last.queue_before
            f == FIFOInvoker_dequeue(qb, last.cm_before, last.time)
            n == NaiveInvoker_dequeue(qb, last.cm_before, last.time)
            mine == IF policy = "FIFO" THEN f ELSE n
        IN /\ f.dequeued = <<>>
           /\ f.queue = qb
           /\ DequeuedIds(n.dequeued) = <<qb[2].invocation_id>>
           /\ n.queue = <<qb[1]>>
           /\ queue = mine.queue
           /\ last.dequeued = mine.dequeued

\* C22 witness: a FIFO dequeue call on such a queue [A, B].
C22_Witness == HeadOfLineCase /\ policy = "FIFO" /\ queue = last.queue_before

\* the same case met by a Naive dequeue call, which admitted B
C22_WitnessNaive == HeadOfLineCase /\ policy = "Naive" /\ Len(last.dequeued) = 1


\* the decision try_invoke gave, in the last dequeue call, for the item it admitted
\* as invocation id
VisitedKind(id) ==
    LET j == CHOOSE j \in 1..Len(last.visited) : last.visited[j].id = id
    IN last.visited[j].kind

\* the container as it was before the last call, if it existed then
ExistedBefore(container_id) == container_id < Len(last.cm_before.containers)

\* C23: an item admitted from the queue as Warm has its container Running with
\* last_change = now and holding the invocation, and is returned with delay
\* absent; an item admitted as Cold has its invocation reserved on a container
\* that is still Deploying, with the invocations and last_change it had, and is
\* returned with the delay of the deployment: what remains of it now.
C23_AdmissionFromQueue ==
    last.op = "dequeue" =>
        \A k \in 1..Len(last.dequeued) :
            LET d == last.dequeued[k]
                c == get_container(cm, d.container_id)
            IN /\ VisitedKind(d.id) \in {"Warm", "Cold"}
               /\ VisitedKind(d.id) = "Warm" =>
                     /\ d.delay = <<>>
                     /\ c.status = "Running"
                     /\ c.last_change = last.time
                     /\ d.id \in c.invocations
                     /\ ExistedBefore(d.container_id)
                     /\ get_container(last.cm_before, d.container_id).status = "Idle"
               /\ VisitedKind(d.id) = "Cold" =>
                     /\ d.delay = <<c.deployment_time + c.last_change - last.time>>
                     /\ d.id \in c.reserved
                     /\ d.id \notin c.invocations
                     /\ c.status = "Deploying"
                     /\ ExistedBefore(d.container_id) =>
                           LET b == get_container(last.cm_before, d.container_id)
                           IN /\ b.status = c.status
                              /\ b.last_change = c.last_change
                              /\ b.invocations = c.invocations
                              /\ c.reserved \ b.reserved \subseteq
                                    Range(DequeuedIds(last.dequeued))
                     /\ ~ExistedBefore(d.container_id) =>
                           /\ c.last_change = last.time
                           /\ c.deployment_time = get_app(c.app_id).deployment_time
                           /\ c.invocations = {}

\* C23 witness: a dequeue call admitted a queued item as Warm on a container
\* that was Idle and is now Running with the invocation.
C23_Witness ==
    /\ last.op = "dequeue"
    /\ \E k \in 1..Len(last.dequeued) :
          /\ last.dequeued[k].delay = <<>>
          /\ get_container(last.cm_before, last.dequeued[k].container_id).status = "Idle"
          /\ get_container(cm, last.dequeued[k].container_id).invocations =
                {last.dequeued[k].id}

\* a Cold admission from the queue on a container that was already Deploying,
\* returned with less than the full deployment time
C23_WitnessRemaining ==
    /\ last.op = "dequeue"
    /\ \E k \in 1..Len(last.dequeued) :
          /\ last.dequeued[k].delay # <<>>
          /\ ExistedBefore(last.dequeued[k].container_id)
          /\ last.dequeued[k].delay[1] <
                get_container(cm, last.dequeued[k].container_id).deployment_time


\* ------------------------------------------------------------------------
\* Container resources, checked under SpecInvoker
\* ------------------------------------------------------------------------
\* the cores / memory held by the containers cs[from..] that are not Terminated
RECURSIVE LiveCores(_, _)
LiveCores(cs, from) ==
    IF from > Len(cs) THEN 0
    ELSE (IF cs[from].status = "Terminated" THEN 0 ELSE get_app(cs[from].app_id).cores)
         + LiveCores(cs, from + 1)

RECURSIVE LiveMemory(_, _)
LiveMemory(cs, from) ==
    IF from > Len(cs) THEN 0
    ELSE (IF cs[from].status = "Terminated" THEN 0 ELSE get_app(cs[from].app_id).memory)
         + LiveMemory(cs, from + 1)

\* C24: the cores and the memory of the live containers of the host never
\* exceed its capacity, and what the host has free is the rest; the containers
\* an invoke or dequeue call deploys are Deploying and fit together in what was
\* free before the call.
C24_ContainerResources ==
    /\ LiveCores(cm.containers, 1) <= Host.cores
    /\ LiveMemory(cm.containers, 1) <= Host.memory
    /\ cm.cores = Host.cores - LiveCores(cm.containers, 1)
    /\ cm.memory = Host.memory - LiveMemory(cm.containers, 1)
    /\ last.op \in {"invoke", "dequeue"} =>
          LET first_new == Len(last.cm_before.containers) + 1
          IN /\ LiveCores(cm.containers, first_new) <= last.cm_before.cores
             /\ LiveMemory(cm.containers, first_new) <= last.cm_before.memory
             /\ \A i \in first_new..Len(cm.containers) :
                   /\ cm.containers[i].status = "Deploying"
                   /\ cm.containers[i].last_change = last.time

\* C24 witness: a dequeue call deployed a container in the room a terminated
\* container had left, and the host is full again.
C24_Witness ==
    /\ last.op = "dequeue"
    /\ Len(cm.containers) > Len(last.cm_before.containers)
    /\ \E i \in 1..Len(cm.containers) : cm.containers[i].status = "Terminated"
    /\ cm.cores = 0


\* ------------------------------------------------------------------------
\* cancel_timer without a pending timer, checked under SpecPending
\* ------------------------------------------------------------------------
\* C25: a cancel_timer(proc, name) called while no TimerFired for (proc, name)
\* is pending, also after one was pushed and popped, completes and removes
\* nothing.
C25_CancelWithoutTimerIsNoop ==
    (pe_last.op = "cancel_timer" /\ pe_last.pending = {}) =>
        /\ ~pe_aborted
        /\ pe_last.removed = <<>>

\* C25, as the claim restates it: every id stored in timer_mapping is the id of
\* a TimerFired event of that process and name that is in events.
C25_TimerMappingPending ==
    \A key \in DOMAIN pe.timer_mapping :
        pe.timer_mapping[key] \in PendingTimersOf(pe, key[1], key[2])

\* the call that works: cancel_timer for a timer that was never pushed
C25_CancelUnknownTimer ==
    /\ pe_last.op = "cancel_timer" /\ pe_last.pending = {}
    /\ ~pe_aborted
    /\ pe_last.removed = <<>>
    /\ pe.events # <<>>


\* ------------------------------------------------------------------------
\* Conservation of the queued invocations, checked under SpecInvoker
\* ------------------------------------------------------------------------
\* how many times id occurs in a sequence of ids
CountIn(ids, id) == Cardinality({k \in 1..Len(ids) : ids[k] = id})

\* the ids the dequeue calls have returned so far, in order
ReturnedByDequeue ==
    LET byDequeue == SelectSeq(admitted, LAMBDA a : a.via = "dequeue")
    IN [k \in 1..Len(byDequeue) |-> byDequeue[k].id]

\* the invocations invoke did not admit: invoke answered Queued for them
QueuedByInvoke ==
    {id \in 0..(inv_counter - 1) :
        \A k \in 1..Len(admitted) :
            admitted[k].via = "invoke" => admitted[k].id # id}

\* C26: every invocation invoke answered Queued for is either in the queue,
\* once, or was returned by a dequeue call, once, and never both; a dequeue
\* call shortens the queue by the number of invocations it returns.
C26_QueueConservation ==
    /\ \A id \in QueuedByInvoke :
          CountIn(Ids(queue), id) + CountIn(ReturnedByDequeue, id) = 1
    /\ \A id \in (0..(inv_counter - 1)) \ QueuedByInvoke :
          CountIn(Ids(queue), id) + CountIn(ReturnedByDequeue, id) = 0
    /\ (last.op = "invoke" /\ last.decision = Queued) =>
          /\ last.invocation.id \in QueuedByInvoke
          /\ CountIn(Ids(queue), last.invocation.id) = 1
    /\ (last.op = "invoke" /\ last.decision # Queued) =>
          last.invocation.id \notin QueuedByInvoke
    /\ last.op = "dequeue" =>
          /\ queue_len(queue) = queue_len(last.queue_before) - Len(last.dequeued)
          /\ ~last.panicked

\* C26 witness: of two invocations invoke queued, a dequeue call has returned
\* one and the other is in the queue.
C26_Witness ==
    /\ last.op = "dequeue"
    /\ Len(last.dequeued) = 1
    /\ Len(queue) = 1
    /\ Cardinality(QueuedByInvoke) = 2


\* ------------------------------------------------------------------------
\* FIFO admits a prefix of what Naive admits, checked under SpecInvoker
\* ------------------------------------------------------------------------
\* the list FIFOInvoker.dequeue returns on (q, m, t) is a prefix of the list
\* NaiveInvoker.dequeue returns on it, entry by entry (invocation id, container
\* id, delay), and the two are equal when Naive meets no Rejected item
FifoPrefixOfNaive(q, m, t) ==
    LET f == FIFOInvoker_dequeue(q, m, t)
        n == NaiveInvoker_dequeue(q, m, t)
    IN /\ Len(f.dequeued) <= Len(n.dequeued)
       /\ f.dequeued = SubSeq(n.dequeued, 1, Len(f.dequeued))
       /\ (\A k \in 1..Len(n.visited) : n.visited[k].kind # "Rejected")
             => f.dequeued = n.dequeued /\ f.queue = n.queue

\* C27: from the same queue, containers and time, FIFOInvoker.dequeue returns a
\* prefix of what NaiveInvoker.dequeue returns, and the same list when no
\* queued item is Rejected: in every reachable state, for every order in which
\* the manager may yield its containers, and for the dequeue call just made.
C27_FifoPrefixOfNaive ==
    /\ \A m \in CmViews : FifoPrefixOfNaive(queue, m, time)
    /\ last.op = "dequeue" =>
          /\ FifoPrefixOfNaive(last.queue_before, last.cm_before, last.time)
          /\ last.dequeued =
                IF policy = "FIFO"
                THEN FIFOInvoker_dequeue(last.queue_before, last.cm_before,
                                         last.time).dequeued
                ELSE NaiveInvoker_dequeue(last.queue_before, last.cm_before,
                                          last.time).dequeued

\* C27 witness: a FIFO dequeue call returned two invocations, as Naive would.
C27_Witness ==
    /\ last.op = "dequeue" /\ policy = "FIFO"
    /\ Len(last.dequeued) = 2
    /\ queue = <<>>
    /\ NaiveInvoker_dequeue(last.queue_before, last.cm_before, last.time).dequeued
          = last.dequeued

\* a state where FIFO would return a proper prefix of what Naive returns
C27_WitnessProper ==
    /\ queue # <<>>
    /\ FIFOInvoker_dequeue(queue, cm, time).dequeued = <<>>
    /\ NaiveInvoker_dequeue(queue, cm, time).dequeued # <<>>


\* ------------------------------------------------------------------------
\* The completion handlers always find an activity, checked under SpecDisk
\* ------------------------------------------------------------------------
\* the throughput model a completion event of the kind is for
ModelOf(kind) ==
    IF kind = "DiskReadActivityCompleted"
    THEN disk.read_throughput_model ELSE disk.write_throughput_model

\* C28: every scheduled completion event has an activity in its throughput
\* model, every completion event delivered found one to pop, and the
\* pop().unwrap() of the handlers has never failed, whatever the interleaving
\* of reads, writes and completions.
C28_CompletionFindsActivity ==
    /\ ~dk_aborted
    /\ \A e \in ctx.queue : ModelOf(e.kind) # <<>>
    /\ dk_last.op = "completed" => dk_last.activity # <<>>

\* C28 witness: a completion was delivered after a write had arrived at the
\* time the completion was due: the write is in the model with all its work
\* left, and the activity completed is an earlier one.
C28_Witness ==
    /\ dk_last.op = "completed"
    /\ dk_last.kind = "DiskWriteActivityCompleted"
    /\ dk_last.activity # <<>>
    /\ \E k \in 1..Len(disk.write_throughput_model) :
          LET a == disk.write_throughput_model[k]
          IN /\ a.remaining = a.activity.size * Scale
             /\ a.activity.request_id > dk_last.activity[1].request_id
    /\ ctx.time > 0

====
